---------------------------- MODULE Spec2Model ----------------------------
(***************************************************************************)
(* A model of the DMU facade of OpenZFS (module/zfs/dmu.c): one object     *)
(* whose level-0 blocks are cached in dbufs, the dirty records of those    *)
(* dbufs, the transaction group pipeline that syncs them, forced           *)
(* single-block syncs (dmu_sync) on behalf of the intent log, block        *)
(* cloning (dmu_brt_clone), and the vnode-op locking protocol documented   *)
(* in module/os/freebsd/zfs/zfs_vnops_os.c.                                *)
(*                                                                         *)
(* dbuf.c, txg.c, dmu_tx.c and zio.c are not part of the excerpt; the      *)
(* definitions that stand for them follow the specification document and   *)
(* are marked as such in the model map.                                    *)
(***************************************************************************)
EXTENDS Integers, Sequences, FiniteSets, TLC

(***************************************************************************)
(* Bounds of the model.                                                    *)
(***************************************************************************)
\* highest transaction group number the pipeline opens
MaxTxg == 3
\* number of level-0 blocks of the object (dn_maxblkid + 1)
NBlk == 1
\* dn_datablkshift: a block holds 2^BlkShift bytes
BlkShift == 1
\* byte values a writer can store are 1..MaxVal; 0 is the content of a hole
MaxVal == 2
\* number of writes and clones the callers start
MaxOps == 2

BlkSz == 2 ^ BlkShift
ObjSize == NBlk * BlkSz
Blocks == 0 .. (NBlk - 1)
Txgs == 1 .. MaxTxg

Writers == {"w1"}
VopThreads == {"A", "B"}

\* values returned by the facade: success (0) and the errno values
OK == "OK"
EIO == "EIO"
EEXIST == "EEXIST"
ENOENT == "ENOENT"
EALREADY == "EALREADY"
ERESTART == "ERESTART"
EAGAIN == "EAGAIN"
EINVAL == "EINVAL"
EXDEV == "EXDEV"

\* spa_freeze_txg() of a pool that is not frozen: later than every txg
UINT64_MAX == MaxTxg + 1

(***************************************************************************)
(* State.                                                                  *)
(***************************************************************************)
VARIABLES
    txg_state,          \* [Txgs -> FUTURE | OPEN | QUIESCING | SYNCING | DONE]
    tc_count,           \* [Txgs -> Nat]: assigned transactions not yet committed
    spa_freeze_txg,     \* txg after which the pool is frozen (ziltest)
    db_state,           \* [Blocks -> DB_UNCACHED | DB_CACHED | DB_FILL | DB_NOFILL]
    db_data,            \* [Blocks -> content]: db->db.db_data
    db_blkptr,          \* [Blocks -> bp]: the block pointer on disk
    db_dirty_records,   \* [Blocks -> Seq(dirty record)], newest txg first
    wr,                 \* [Writers -> record]: a thread in dmu_write / dmu_brt_clone
    zios,               \* set of dmu_sync writes in flight
    call,               \* the dmu_sync call or done callback that just returned
    nops,               \* number of writes and clones started so far
    brt_pending,        \* set of <<blk, txg>>: pending BRT reference additions
    logical,            \* [Blocks -> content]: what the completed writes stored
    vop,                \* [VopThreads -> record]: a thread in a vnode op
    z_lock,             \* owner of the ZPL lock of the vnode-op example, or "none"
    db_changed,         \* [Blocks -> set of threads in cv_wait(&db->db_changed)]
    pol,                \* a call of dmu_write_policy: arguments and zio_prop_t
    dnodes,             \* [FreeCallers -> dnode]: the object a caller frees
    fr,                 \* [FreeCallers -> record]: a thread in dmu_free_long_range
    dp_long_free_dirty_pertxg,          \* [Txgs -> bytes dirtied by frees]
    zfs_per_txg_dirty_frees_percent,    \* the tunable
    wi,                 \* a call of dmu_write_impl: arguments and buffers
    hdb,                \* the buffers reading holds are taken on
    holder,             \* the callers of dmu_buf_hold_array_by_dnode
    pw,                 \* a call of dmu_prefetch_wait
    pf,                 \* a call of dmu_prefetch_by_dnode
    bc,                 \* a call of dmu_brt_clone
    rb,                 \* a call of dmu_read_l0_bps
    on,                 \* a call of dmu_offset_next
    ha,                 \* a call of dmu_buf_hold_array_by_dnode followed through its holds
    bh,                 \* the callers of dmu_bonus_hold_by_dnode on one dnode
    sp                  \* the objects of an objset and the last facade call on them

pipeVars == <<txg_state, tc_count, spa_freeze_txg>>
dbufVars == <<db_state, db_data, db_blkptr, db_dirty_records>>
vopVars == <<vop, z_lock>>
funcVars == <<wi, hdb, holder, pw, pf, bc, rb, on, ha, bh, sp>>
policyVars == <<pol, funcVars>>
freeVars == <<dnodes, fr, dp_long_free_dirty_pertxg,
              zfs_per_txg_dirty_frees_percent>>
dataVars == <<pipeVars, dbufVars, wr, zios, call, nops, brt_pending, logical,
              vopVars, db_changed, pol, freeVars>>
vars == <<txg_state, tc_count, spa_freeze_txg, db_state, db_data, db_blkptr,
          db_dirty_records, wr, zios, call, nops, brt_pending, logical, vop,
          z_lock, db_changed, pol, dnodes, fr, dp_long_free_dirty_pertxg,
          zfs_per_txg_dirty_frees_percent, wi, hdb, holder, pw, pf, bc, rb,
          on,
          ha,
          bh,
          sp>>
\* what the steps of each of the functions looked at on its own leave alone
notWrite == <<dataVars, hdb, holder, pw, pf, bc, rb, on, ha, bh, sp>>
notHold == <<dataVars, wi, pw, pf, bc, rb, on, ha, bh, sp>>
notPrefetchWait == <<dataVars, wi, hdb, holder, pf, bc, rb, on, ha, bh, sp>>
notPrefetch == <<dataVars, wi, hdb, holder, pw, bc, rb, on, ha, bh, sp>>
notClone == <<dataVars, wi, hdb, holder, pw, pf, rb, on, ha, bh, sp>>
notReadBps == <<dataVars, wi, hdb, holder, pw, pf, bc, on, ha, bh, sp>>

\* the value of call after a step that is no return of dmu_sync and no
\* done callback
NoCall == [op |-> "none", z |-> "none", blk |-> 0, txg |-> 0, ret |-> "none"]

(***************************************************************************)
(* Contents and block pointers.                                            *)
(***************************************************************************)
Zeros == [j \in 0 .. (BlkSz - 1) |-> 0]
\* a buffer that was allocated but never filled
Garbage == [j \in 0 .. (BlkSz - 1) |-> -1]

\* a block pointer: logical birth, physical birth (BP_GET_BIRTH) and the data
\* it locates; a block pointer without an allocation is a hole
HoleBP == [lbirth |-> 0, pbirth |-> 0, data |-> Zeros]
BP_IS_HOLE(bp) == bp.pbirth = 0
BP_GET_BIRTH(bp) == bp.pbirth
BP_GET_LOGICAL_BIRTH(bp) == bp.lbirth
BP_EQUAL(a, b) == a = b
\* the block pointer of a block written in txg
WrittenBP(txg, data) == [lbirth |-> txg, pbirth |-> txg, data |-> data]

Min(a, b) == IF a < b THEN a ELSE b

\* byte j of the caller's buffer of a write that stores value v
DataByte(v, j) == IF j % 2 = 0 THEN v ELSE (v % MaxVal) + 1

(***************************************************************************)
(* Transaction group pipeline (txg.c).                                     *)
(***************************************************************************)
TxgsIn(st) == {t \in Txgs : txg_state[t] = st}
SetMax(S) == CHOOSE m \in S : \A x \in S : x <= m

tx_open_txg == SetMax(TxgsIn("OPEN"))
spa_last_synced_txg == SetMax({0} \cup TxgsIn("DONE"))
spa_syncing_txg ==
    IF TxgsIn("SYNCING") # {} THEN SetMax(TxgsIn("SYNCING"))
    ELSE spa_last_synced_txg

\* the dirty record list of b holds a record of txg t
HasDirty(b, t) ==
    \E i \in 1 .. Len(db_dirty_records[b]) : db_dirty_records[b][i].dr_txg = t

\* txg_quiesce: the open group starts quiescing and the next one opens
TxgQuiesce ==
    /\ TxgsIn("QUIESCING") = {}
    /\ tx_open_txg < MaxTxg
    /\ txg_state' = [txg_state EXCEPT ![tx_open_txg] = "QUIESCING",
                                      ![tx_open_txg + 1] = "OPEN"]
    /\ call' = NoCall
    /\ UNCHANGED <<tc_count, spa_freeze_txg, dbufVars, wr, zios,
                   brt_pending, logical, vopVars, policyVars, freeVars, db_changed, nops>>

\* a sync thread that takes the next group while the last one still syncs
TxgStartSync_overlap ==
    /\ \E t \in TxgsIn("QUIESCING") :
          /\ tc_count[t] = 0
          /\ txg_state' = [txg_state EXCEPT ![t] = "SYNCING"]
    /\ call' = NoCall
    /\ UNCHANGED <<tc_count, spa_freeze_txg, dbufVars, wr, zios,
                   brt_pending, logical, vopVars, policyVars, freeVars, db_changed, nops>>

\* a quiesce that does not wait for the transactions of the group
TxgStartSync_nodrain ==
    /\ \E t \in TxgsIn("QUIESCING") :
          /\ TxgsIn("SYNCING") = {}
          /\ txg_state' = [txg_state EXCEPT ![t] = "SYNCING"]
    /\ call' = NoCall
    /\ UNCHANGED <<tc_count, spa_freeze_txg, dbufVars, wr, zios,
                   brt_pending, logical, vopVars, policyVars, freeVars, db_changed, nops>>

\* the quiescing group has drained and is handed to the sync thread
TxgStartSync ==
    /\ \E t \in TxgsIn("QUIESCING") :
          /\ tc_count[t] = 0
          /\ TxgsIn("SYNCING") = {}
          /\ txg_state' = [txg_state EXCEPT ![t] = "SYNCING"]
    /\ call' = NoCall
    /\ UNCHANGED <<tc_count, spa_freeze_txg, dbufVars, wr, zios,
                   brt_pending, logical, vopVars, policyVars, freeVars, db_changed, nops>>

\* spa_sync is over: the syncing group is done
TxgSyncDone ==
    /\ \E t \in TxgsIn("SYNCING") :
          /\ \A b \in Blocks : ~HasDirty(b, t)
          /\ txg_state' = [txg_state EXCEPT ![t] = "DONE"]
          /\ brt_pending' = {p \in brt_pending : p[2] # t}
          /\ dp_long_free_dirty_pertxg' =
                [dp_long_free_dirty_pertxg EXCEPT ![t] = 0]
    /\ call' = NoCall
    /\ UNCHANGED <<tc_count, spa_freeze_txg, dbufVars, wr, zios,
                   logical, vopVars, policyVars, dnodes, fr,
                   zfs_per_txg_dirty_frees_percent, db_changed, nops>>

(***************************************************************************)
(* Buffer cache node (dbuf.c).  A dbuf is handled as a record              *)
(*   [st, data, bp, dirty]                                                  *)
(* and a dirty record as                                                    *)
(*   [dr_txg, dr_shared, dr_data, dr_override_state, dr_overridden_by,      *)
(*    dr_brtwrite, dr_nopwrite]                                             *)
(* dr_shared says that dr->dt.dl.dr_data is the dbuf's own buffer db_buf.   *)
(***************************************************************************)
Dbuf(b) == [st |-> db_state[b], data |-> db_data[b], bp |-> db_blkptr[b],
            dirty |-> db_dirty_records[b]]

SetDbuf(b, d) ==
    /\ db_state' = [db_state EXCEPT ![b] = d.st]
    /\ db_data' = [db_data EXCEPT ![b] = d.data]
    /\ db_blkptr' = [db_blkptr EXCEPT ![b] = d.bp]
    /\ db_dirty_records' = [db_dirty_records EXCEPT ![b] = d.dirty]

NewDirtyRecord(txg, shared) ==
    [dr_txg |-> txg, dr_shared |-> shared, dr_data |-> Zeros,
     dr_override_state |-> "DR_NOT_OVERRIDDEN", dr_overridden_by |-> HoleBP,
     dr_brtwrite |-> FALSE, dr_nopwrite |-> FALSE]

\* the data a dirty record will write
DataOf(d, dr) == IF dr.dr_shared THEN d.data ELSE dr.dr_data

\* index of the first record whose txg is <= txg, 0 if there is none
dbuf_find_dirty_lte(list, txg) ==
    IF \E i \in 1 .. Len(list) : list[i].dr_txg <= txg
    THEN CHOOSE i \in 1 .. Len(list) :
            /\ list[i].dr_txg <= txg
            /\ \A j \in 1 .. (i - 1) : list[j].dr_txg > txg
    ELSE 0

dbuf_find_dirty_eq(list, txg) ==
    LET i == dbuf_find_dirty_lte(list, txg)
    IN  IF i # 0 /\ list[i].dr_txg = txg THEN i ELSE 0

\* list_next(&db->db_dirty_records, dr): 0 stands for NULL
list_next(list, i) == IF i < Len(list) THEN i + 1 ELSE 0

RemoveAt(list, i) == SubSeq(list, 1, i - 1) \o SubSeq(list, i + 1, Len(list))

InsertAt(list, i, e) ==
    SubSeq(list, 1, i - 1) \o <<e>> \o SubSeq(list, i, Len(list))

\* the block pointer a read of the dbuf goes to
dmu_buf_get_bp_from_dbuf(d) ==
    IF d.dirty # <<>> /\ Head(d.dirty).dr_brtwrite
    THEN Head(d.dirty).dr_overridden_by
    ELSE d.bp

dbuf_read(d) ==
    IF d.st \in {"DB_UNCACHED", "DB_NOFILL"}
    THEN [d EXCEPT !.st = "DB_CACHED",
                   !.data = dmu_buf_get_bp_from_dbuf(d).data]
    ELSE d

dbuf_noread(d) ==
    IF d.st = "DB_UNCACHED"
    THEN [d EXCEPT !.st = "DB_FILL", !.data = Garbage]
    ELSE d

\* dbuf_unoverride: the record forgets the block pointer it was given; the
\* record of a clone had no data and takes the dbuf's buffer
dbuf_unoverride(dr) ==
    IF dr.dr_override_state = "DR_NOT_OVERRIDDEN" THEN dr
    ELSE [dr EXCEPT !.dr_override_state = "DR_NOT_OVERRIDDEN",
                    !.dr_shared = IF dr.dr_brtwrite THEN TRUE ELSE @,
                    !.dr_overridden_by = HoleBP,
                    !.dr_brtwrite = FALSE,
                    !.dr_nopwrite = FALSE]

dbuf_undirty(d, txg) ==
    LET i == dbuf_find_dirty_eq(d.dirty, txg)
    IN  IF i = 0 THEN d ELSE [d EXCEPT !.dirty = RemoveAt(d.dirty, i)]

\* dbuf_fix_old_data: if the newest record still uses the dbuf's buffer it
\* gets a copy of its own
dbuf_fix_old_data(d) ==
    IF d.dirty # <<>> /\ d.dirty[1].dr_shared
    THEN [d EXCEPT !.dirty[1] = [d.dirty[1] EXCEPT !.dr_shared = FALSE,
                                                   !.dr_data = d.data]]
    ELSE d

dbuf_dirty(d, txg) ==
    LET i == dbuf_find_dirty_eq(d.dirty, txg)
    IN  IF i # 0
        THEN [d EXCEPT !.dirty[i] = dbuf_unoverride(d.dirty[i])]
        ELSE LET d1 == dbuf_fix_old_data(d)
                 n == dbuf_find_dirty_lte(d1.dirty, txg)
                 pos == IF n = 0 THEN Len(d1.dirty) + 1 ELSE n
             IN  [d1 EXCEPT !.dirty = InsertAt(d1.dirty, pos,
                        NewDirtyRecord(txg, d1.st # "DB_NOFILL"))]

dmu_buf_will_fill(d, txg) ==
    LET d1 == IF d.st = "DB_NOFILL"
              THEN [dbuf_undirty(d, txg) EXCEPT !.st = "DB_UNCACHED"]
              ELSE d
    IN  dbuf_dirty(dbuf_noread(d1), txg)

dmu_buf_will_dirty(d, txg) ==
    LET i == dbuf_find_dirty_eq(d.dirty, txg)
        cloned == i # 0 /\ d.dirty[i].dr_brtwrite
    IN  IF d.st \in {"DB_CACHED", "DB_NOFILL"} /\ i # 0 /\ ~cloned
        THEN [d EXCEPT !.dirty[i] = dbuf_unoverride(d.dirty[i])]
        ELSE LET d1 == dbuf_read(d)
                 d2 == IF cloned THEN dbuf_undirty(d1, txg) ELSE d1
             IN  dbuf_dirty(d2, txg)

dmu_buf_fill_done(d) ==
    IF d.st = "DB_FILL" THEN [d EXCEPT !.st = "DB_CACHED"] ELSE d

dmu_buf_will_clone_or_dio(d, txg) ==
    LET d1 == dbuf_fix_old_data(dbuf_undirty(d, txg))
        d2 == [d1 EXCEPT !.st = "DB_NOFILL", !.data = Garbage]
    IN  dbuf_dirty(d2, txg)

(***************************************************************************)
(* Block arithmetic of dmu_buf_hold_array_by_dnode.                        *)
(***************************************************************************)
P2ALIGN(x, a) == x - (x % a)
P2ROUNDUP(x, a) == P2ALIGN(x + (a - 1), a)
dbuf_whichblock(offset) == offset \div BlkSz
\* nblks for an object with dn_datablkshift set
HoldArrayNblks(offset, length) ==
    (P2ROUNDUP(offset + length, BlkSz) - P2ALIGN(offset, BlkSz)) \div BlkSz
\* the blocks dmu_buf_hold_array_by_dnode holds, in order
RangeBlocks(offset, length) ==
    dbuf_whichblock(offset) ..
        (dbuf_whichblock(offset) + HoldArrayNblks(offset, length) - 1)

\* byte ranges inside the object
Ranges == {r \in (0 .. (ObjSize - 1)) \X (1 .. ObjSize) : r[1] + r[2] <= ObjSize}
\* ranges made of whole blocks
AlignedRanges == {r \in Ranges : r[1] % BlkSz = 0 /\ r[2] % BlkSz = 0}

(***************************************************************************)
(* Range locks of the callers (zfs_rangelock, held around every access     *)
(* that has to be atomic): a writer holds its blocks from before the       *)
(* assignment of its transaction until after the commit, the caller of     *)
(* dmu_sync holds its block as a reader until the done callback.           *)
(***************************************************************************)
IdleWriter == [pc |-> "idle", txg |-> 0, off0 |-> 0, len0 |-> 0, val |-> 0,
               offset |-> 0, size |-> 0, buf |-> 0, i |-> 0, k |-> 0,
               bps |-> <<>>]

WriteLocked(b) ==
    \E w \in Writers : /\ wr[w].pc # "idle"
                       /\ b \in RangeBlocks(wr[w].off0, wr[w].len0)

ReadLocked(b) == \E io \in zios : io.blk = b

(***************************************************************************)
(* dmu_write (dmu.c), one step per call the code makes on a buffer.        *)
(***************************************************************************)
\* dmu_tx_assign followed by dmu_buf_hold_array(..., read = FALSE, ...)
DmuWriteBegin(w, off, len, val) ==
    /\ wr[w].pc = "idle"
    /\ nops < MaxOps
    /\ nops' = nops + 1
    /\ \A b \in RangeBlocks(off, len) : ~WriteLocked(b) /\ ~ReadLocked(b)
    /\ wr' = [wr EXCEPT ![w] = [IdleWriter EXCEPT
                  !.pc = "will", !.txg = tx_open_txg, !.off0 = off,
                  !.len0 = len, !.val = val, !.offset = off, !.size = len]]
    /\ tc_count' = [tc_count EXCEPT ![tx_open_txg] = @ + 1]
    /\ call' = NoCall
    /\ UNCHANGED <<txg_state, spa_freeze_txg, dbufVars, zios, brt_pending,
                   logical, vopVars, policyVars, freeVars, db_changed>>

\* the loop variables of dmu_write_impl for buffer dbp[i]
WBlk(r) == dbuf_whichblock(r.off0) + r.i
WBufoff(r) == r.offset - (WBlk(r) * BlkSz)
WTocpy(r) == Min(BlkSz - WBufoff(r), r.size)
WNumbufs(r) == HoldArrayNblks(r.off0, r.len0)

\* pending BRT additions that still have their cloned dirty record
BrtKeep(b, d, pend) ==
    {p \in pend : \/ p[1] # b
                  \/ \E i \in 1 .. Len(d.dirty) :
                        d.dirty[i].dr_txg = p[2] /\ d.dirty[i].dr_brtwrite}

\* a writer that takes a buffer that is dirty in any group for dirty in its
\* own
WillDirtyOrFill_anytxg(r) ==
    IF Dbuf(WBlk(r)).st = "DB_CACHED" /\ Dbuf(WBlk(r)).dirty # <<>>
    THEN Dbuf(WBlk(r))
    ELSE IF WTocpy(r) = BlkSz
    THEN dmu_buf_will_fill(Dbuf(WBlk(r)), r.txg)
    ELSE dmu_buf_will_dirty(Dbuf(WBlk(r)), r.txg)

\* dmu_buf_will_fill_flags for a block that is wholly overwritten,
\* dmu_buf_will_dirty_flags otherwise
WillDirtyOrFill(r) ==
    IF WTocpy(r) = BlkSz
    THEN dmu_buf_will_fill(Dbuf(WBlk(r)), r.txg)
    ELSE dmu_buf_will_dirty(Dbuf(WBlk(r)), r.txg)

DmuWriteWill(w) ==
    LET r == wr[w]
        d == WillDirtyOrFill(r)
    IN  /\ r.pc = "will"
        /\ SetDbuf(WBlk(r), d)
        /\ brt_pending' = BrtKeep(WBlk(r), d, brt_pending)
        /\ wr' = [wr EXCEPT ![w].pc = "copy"]
        /\ call' = NoCall
        /\ UNCHANGED <<pipeVars, zios, logical, vopVars, policyVars, freeVars, db_changed, nops>>

\* what the object holds once a write of val at [off0, off0 + len0) is over
LogicalAfter(lg, off0, len0, val, txg) ==
    [b \in Blocks |->
        IF b \in RangeBlocks(off0, len0)
        THEN [txg |-> txg,
              data |-> [j \in 0 .. (BlkSz - 1) |->
                    LET a == (b * BlkSz) + j
                    IN  IF a >= off0 /\ a < off0 + len0
                        THEN DataByte(val, a - off0)
                        ELSE lg[b].data[j]]]
        ELSE lg[b]]

\* a copy that lands at the start of the buffer whatever bufoff is
memcpy_nobufoff(data, bufoff, val, buf, tocpy) ==
    [j \in 0 .. (BlkSz - 1) |->
        IF j < tocpy THEN DataByte(val, buf + j) ELSE data[j]]

\* memcpy((char *)db->db_data + bufoff, buf, tocpy)
memcpy(data, bufoff, val, buf, tocpy) ==
    [j \in 0 .. (BlkSz - 1) |->
        IF j >= bufoff /\ j < bufoff + tocpy
        THEN DataByte(val, buf + (j - bufoff))
        ELSE data[j]]

\* the copy into dbp[i], one byte per step; the last byte is followed by
\* dmu_buf_fill_done after a whole-block copy and by the loop increment
DmuWriteCopy(w) ==
    LET r == wr[w]
        b == WBlk(r)
        d0 == Dbuf(b)
        d1 == [d0 EXCEPT !.data = memcpy(d0.data, WBufoff(r) + r.k, r.val,
                                         r.buf + r.k, 1)]
        last == r.k + 1 = WTocpy(r)
        d2 == IF last /\ WTocpy(r) = BlkSz THEN dmu_buf_fill_done(d1) ELSE d1
        over == r.i + 1 = WNumbufs(r)
    IN  /\ r.pc = "copy"
        /\ SetDbuf(b, d2)
        /\ IF ~last
           THEN /\ wr' = [wr EXCEPT ![w].k = r.k + 1]
                /\ UNCHANGED logical
           ELSE /\ wr' = [wr EXCEPT ![w] = [r EXCEPT
                        !.offset = r.offset + WTocpy(r),
                        !.size = r.size - WTocpy(r),
                        !.buf = r.buf + WTocpy(r),
                        !.i = r.i + 1,
                        !.k = 0,
                        !.pc = IF over THEN "done" ELSE "will"]]
                /\ logical' = IF over
                              THEN LogicalAfter(logical, r.off0, r.len0, r.val,
                                                r.txg)
                              ELSE logical
        /\ call' = NoCall
        /\ UNCHANGED <<pipeVars, zios, brt_pending, vopVars, policyVars, freeVars, db_changed, nops>>

\* dmu_buf_rele_array and dmu_tx_commit
DmuTxCommit(w) ==
    /\ wr[w].pc = "done"
    /\ tc_count' = [tc_count EXCEPT ![wr[w].txg] = @ - 1]
    /\ wr' = [wr EXCEPT ![w] = IdleWriter]
    /\ call' = NoCall
    /\ UNCHANGED <<txg_state, spa_freeze_txg, dbufVars, zios, brt_pending,
                   logical, vopVars, policyVars, freeVars, db_changed, nops>>

(***************************************************************************)
(* dmu_read (dmu.c).                                                       *)
(***************************************************************************)
\* the bytes dmu_read_impl copies out of buffers i .. numbufs - 1
RECURSIVE dmu_read_bufs(_, _, _, _, _)
dmu_read_bufs(first, numbufs, i, offset, size) ==
    IF i = numbufs \/ size = 0 THEN <<>>
    ELSE LET d == dbuf_read(Dbuf(first + i))
             bufoff == offset - ((first + i) * BlkSz)
             tocpy == Min(BlkSz - bufoff, size)
         IN  [n \in 1 .. tocpy |-> d.data[bufoff + n - 1]]
                 \o dmu_read_bufs(first, numbufs, i + 1, offset + tocpy,
                                  size - tocpy)

\* dn_maxblkid of the object
dn_maxblkid == NBlk - 1

\* the buffer dmu_read_impl fills when every block read succeeds
dmu_read_impl(offset, size) ==
    LET newsz == IF dn_maxblkid = 0
                 THEN (IF offset > BlkSz THEN 0 ELSE Min(size, BlkSz - offset))
                 ELSE size
    IN  (IF newsz = 0 THEN <<>>
         ELSE dmu_read_bufs(dbuf_whichblock(offset),
                            HoldArrayNblks(offset, newsz), 0, offset, newsz))
            \o [n \in 1 .. (size - newsz) |-> 0]

\* a block read has to go to disk
NeedsIo(b) == db_state[b] \in {"DB_UNCACHED", "DB_NOFILL"}

\* dmu_read: holds the buffers of the range with read = TRUE, which reads
\* the uncached ones in, and copies out; an I/O error leaves them uncached
DmuRead(off, len, ioerr) ==
    /\ \A b \in RangeBlocks(off, len) : ~WriteLocked(b)
    /\ \E b \in RangeBlocks(off, len) : NeedsIo(b)
    /\ IF ioerr
       THEN UNCHANGED dbufVars
       ELSE /\ db_state' = [b \in Blocks |->
                    IF b \in RangeBlocks(off, len)
                    THEN dbuf_read(Dbuf(b)).st ELSE db_state[b]]
            /\ db_data' = [b \in Blocks |->
                    IF b \in RangeBlocks(off, len)
                    THEN dbuf_read(Dbuf(b)).data ELSE db_data[b]]
            /\ UNCHANGED <<db_blkptr, db_dirty_records>>
    /\ call' = NoCall
    /\ UNCHANGED <<pipeVars, wr, zios, brt_pending, logical, vopVars, policyVars, freeVars, db_changed, nops>>

\* dbuf_evict: a dbuf without holds and without dirty records loses its data
DbufEvict(b) ==
    /\ db_state[b] \in {"DB_CACHED", "DB_NOFILL"}
    /\ db_dirty_records[b] = <<>>
    /\ ~WriteLocked(b)
    /\ ~ReadLocked(b)
    /\ db_state' = [db_state EXCEPT ![b] = "DB_UNCACHED"]
    /\ db_data' = [db_data EXCEPT ![b] = Garbage]
    /\ call' = NoCall
    /\ UNCHANGED <<db_blkptr, db_dirty_records, pipeVars, wr, zios,
                   brt_pending, logical, vopVars, policyVars, freeVars, db_changed, nops>>

(***************************************************************************)
(* Syncing context (dbuf_sync_leaf, dbuf_write, dbuf_write_done).          *)
(***************************************************************************)
\* the thread that runs dbuf_sync_leaf
SyncThread == "sync"

\* the block pointer the sync of a dirty record leaves in the dbuf
SyncedBP(d, dr) ==
    IF dr.dr_override_state = "DR_OVERRIDDEN"
    THEN dr.dr_overridden_by
    ELSE WrittenBP(dr.dr_txg, DataOf(d, dr))

\* dbuf_sync_leaf finds the record of the syncing txg in DR_IN_DMU_SYNC and
\* sleeps in cv_wait(&db->db_changed, &db->db_mtx)
DbufSyncWait(b) ==
    \E t \in TxgsIn("SYNCING") :
        LET d == Dbuf(b)
            i == dbuf_find_dirty_eq(d.dirty, t)
        IN  /\ i # 0
            /\ d.dirty[i].dr_override_state = "DR_IN_DMU_SYNC"
            /\ SyncThread \notin db_changed[b]
            /\ db_changed' = [db_changed EXCEPT ![b] = @ \cup {SyncThread}]
            /\ call' = NoCall
            /\ UNCHANGED <<pipeVars, dbufVars, wr, zios, brt_pending, logical,
                           vopVars, policyVars, freeVars, nops>>

DbufSyncLeaf(b) ==
    \E t \in TxgsIn("SYNCING") :
        LET d == Dbuf(b)
            i == dbuf_find_dirty_eq(d.dirty, t)
        IN  /\ i # 0
            /\ SyncThread \notin db_changed[b]
            /\ d.dirty[i].dr_override_state # "DR_IN_DMU_SYNC"
            /\ SetDbuf(b, [d EXCEPT !.bp = SyncedBP(d, d.dirty[i]),
                                    !.dirty = RemoveAt(d.dirty, i)])
            /\ call' = NoCall
            /\ UNCHANGED <<pipeVars, wr, zios, brt_pending, logical,
                           vopVars, policyVars, freeVars, db_changed, nops>>

(***************************************************************************)
(* dmu_sync (dmu.c): the intent log forces one block out ahead of the      *)
(* sync of its transaction group.                                          *)
(***************************************************************************)
\* dataset settings dmu_write_policy reads for a level-0 block of a plain
\* file written with WP_DMU_SYNC
Datasets ==
    {[os_checksum |-> "fletcher4", os_dedup_checksum |-> "off",
      os_compress |-> "lz4", os_encrypted |-> FALSE, nopwrite_enabled |-> TRUE],
     [os_checksum |-> "sha256", os_dedup_checksum |-> "off",
      os_compress |-> "lz4", os_encrypted |-> FALSE, nopwrite_enabled |-> TRUE],
     [os_checksum |-> "sha256", os_dedup_checksum |-> "off",
      os_compress |-> "off", os_encrypted |-> FALSE, nopwrite_enabled |-> TRUE],
     [os_checksum |-> "fletcher4", os_dedup_checksum |-> "sha256",
      os_compress |-> "off", os_encrypted |-> FALSE, nopwrite_enabled |-> TRUE],
     [os_checksum |-> "sha256", os_dedup_checksum |-> "off",
      os_compress |-> "lz4", os_encrypted |-> TRUE, nopwrite_enabled |-> TRUE],
     [os_checksum |-> "sha256", os_dedup_checksum |-> "off",
      os_compress |-> "lz4", os_encrypted |-> FALSE, nopwrite_enabled |-> FALSE]}

\* zio_checksum_table[c].ci_flags & ZCHECKSUM_FLAG_NOPWRITE
ChecksumNopwrite(c) == c = "sha256"

\* zp_nopwrite of dmu_write_policy(os, dn, 0, WP_DMU_SYNC, &zp)
DmuSyncPolicyNopwrite(os) ==
    LET compress == IF os.os_compress = "off" /\ os.os_dedup_checksum # "off"
                    THEN "empty" ELSE os.os_compress
        checksum == IF os.os_dedup_checksum = "off"
                    THEN os.os_checksum ELSE os.os_dedup_checksum
        dedup == FALSE
        nopwrite == /\ ~dedup
                    /\ ChecksumNopwrite(checksum)
                    /\ compress # "off"
                    /\ os.nopwrite_enabled
    IN  IF os.os_encrypted THEN FALSE ELSE nopwrite

\* the values of zp_nopwrite the datasets give
PolicyNopwrites == {DmuSyncPolicyNopwrite(os) : os \in Datasets}

\* the steps of dmu_sync_late_arrival that can fail: the read of the buffer
\* and the assignment of the new transaction
Faults == {"none", "read", "assign"}

InFlight(z) == \E io \in zios : io.z = z

\* a late arrival that does not abort the transaction it could not assign
dmu_sync_late_arrival_noabort(b, t, fault) ==
    LET d == Dbuf(b)
    IN  IF NeedsIo(b) /\ fault = "read"
        THEN [ret |-> EIO, d |-> d, io |-> {}, hold |-> 0]
        ELSE IF fault = "assign"
        THEN [ret |-> EIO, d |-> dbuf_read(d), io |-> {}, hold |-> tx_open_txg]
        ELSE [ret |-> OK, d |-> dbuf_read(d),
              io |-> {[blk |-> b, txg |-> t, late |-> TRUE,
                       nopwrite |-> FALSE, bp_orig |-> HoleBP,
                       tx |-> tx_open_txg]},
              hold |-> tx_open_txg]

\* dmu_sync_late_arrival: what it returns, the dbuf it leaves and the write
\* it issues under a new transaction
dmu_sync_late_arrival(b, t, fault) ==
    LET d == Dbuf(b)
    IN  IF NeedsIo(b) /\ fault = "read"
        THEN [ret |-> EIO, d |-> d, io |-> {}, hold |-> 0]
        ELSE IF fault = "assign"
        THEN [ret |-> EIO, d |-> dbuf_read(d), io |-> {}, hold |-> 0]
        ELSE [ret |-> OK, d |-> dbuf_read(d),
              io |-> {[blk |-> b, txg |-> t, late |-> TRUE,
                       nopwrite |-> FALSE, bp_orig |-> HoleBP,
                       tx |-> tx_open_txg]},
              hold |-> tx_open_txg]

\* a dmu_sync that takes the last synced txg for not yet synced
dmu_sync_lt(b, t, zp_nop, freed, fault) ==
    LET d == Dbuf(b)
        dr == dbuf_find_dirty_eq(d.dirty, t)
        dr_next == list_next(d.dirty, dr)
        nopwrite == IF dr_next # 0 THEN FALSE
                    ELSE IF freed THEN FALSE ELSE zp_nop
    IN  IF t > spa_freeze_txg
        THEN dmu_sync_late_arrival(b, t, fault)
        ELSE IF t < spa_last_synced_txg
        THEN [ret |-> EEXIST, d |-> d, io |-> {}, hold |-> 0]
        ELSE IF t <= spa_syncing_txg
        THEN dmu_sync_late_arrival(b, t, fault)
        ELSE IF dr = 0
        THEN [ret |-> ENOENT, d |-> d, io |-> {}, hold |-> 0]
        ELSE IF d.dirty[dr].dr_override_state \in {"DR_IN_DMU_SYNC", "DR_OVERRIDDEN"}
        THEN [ret |-> EALREADY, d |-> d, io |-> {}, hold |-> 0]
        ELSE [ret |-> OK,
              d |-> [d EXCEPT !.dirty[dr].dr_override_state = "DR_IN_DMU_SYNC"],
              io |-> {[blk |-> b, txg |-> t, late |-> FALSE,
                       nopwrite |-> nopwrite, bp_orig |-> d.bp, tx |-> 0]},
              hold |-> 0]

\* a dmu_sync that looks for the newest dirty record up to its txg
dmu_sync_lte(b, t, zp_nop, freed, fault) ==
    LET d == Dbuf(b)
        dr == dbuf_find_dirty_lte(d.dirty, t)
        dr_next == list_next(d.dirty, dr)
        nopwrite == IF dr_next # 0 THEN FALSE
                    ELSE IF freed THEN FALSE ELSE zp_nop
    IN  IF t > spa_freeze_txg
        THEN dmu_sync_late_arrival(b, t, fault)
        ELSE IF t <= spa_last_synced_txg
        THEN [ret |-> EEXIST, d |-> d, io |-> {}, hold |-> 0]
        ELSE IF t <= spa_syncing_txg
        THEN dmu_sync_late_arrival(b, t, fault)
        ELSE IF dr = 0
        THEN [ret |-> ENOENT, d |-> d, io |-> {}, hold |-> 0]
        ELSE IF d.dirty[dr].dr_override_state \in {"DR_IN_DMU_SYNC", "DR_OVERRIDDEN"}
        THEN [ret |-> EALREADY, d |-> d, io |-> {}, hold |-> 0]
        ELSE [ret |-> OK,
              d |-> [d EXCEPT !.dirty[dr].dr_override_state = "DR_IN_DMU_SYNC"],
              io |-> {[blk |-> b, txg |-> t, late |-> FALSE,
                       nopwrite |-> nopwrite, bp_orig |-> d.bp, tx |-> 0]},
              hold |-> 0]

\* a dmu_sync that does not see a write in flight
dmu_sync_noinsync(b, t, zp_nop, freed, fault) ==
    LET d == Dbuf(b)
        dr == dbuf_find_dirty_eq(d.dirty, t)
        dr_next == list_next(d.dirty, dr)
        nopwrite == IF dr_next # 0 THEN FALSE
                    ELSE IF freed THEN FALSE ELSE zp_nop
    IN  IF t > spa_freeze_txg
        THEN dmu_sync_late_arrival(b, t, fault)
        ELSE IF t <= spa_last_synced_txg
        THEN [ret |-> EEXIST, d |-> d, io |-> {}, hold |-> 0]
        ELSE IF t <= spa_syncing_txg
        THEN dmu_sync_late_arrival(b, t, fault)
        ELSE IF dr = 0
        THEN [ret |-> ENOENT, d |-> d, io |-> {}, hold |-> 0]
        ELSE IF d.dirty[dr].dr_override_state = "DR_OVERRIDDEN"
        THEN [ret |-> EALREADY, d |-> d, io |-> {}, hold |-> 0]
        ELSE [ret |-> OK,
              d |-> [d EXCEPT !.dirty[dr].dr_override_state = "DR_IN_DMU_SYNC"],
              io |-> {[blk |-> b, txg |-> t, late |-> FALSE,
                       nopwrite |-> nopwrite, bp_orig |-> d.bp, tx |-> 0]},
              hold |-> 0]

\* a dmu_sync that leaves nopwrite on when an older dirty record is pending
dmu_sync_nodrnext(b, t, zp_nop, freed, fault) ==
    LET d == Dbuf(b)
        dr == dbuf_find_dirty_eq(d.dirty, t)
        dr_next == list_next(d.dirty, dr)
        nopwrite == IF freed THEN FALSE ELSE zp_nop
    IN  IF t > spa_freeze_txg
        THEN dmu_sync_late_arrival(b, t, fault)
        ELSE IF t <= spa_last_synced_txg
        THEN [ret |-> EEXIST, d |-> d, io |-> {}, hold |-> 0]
        ELSE IF t <= spa_syncing_txg
        THEN dmu_sync_late_arrival(b, t, fault)
        ELSE IF dr = 0
        THEN [ret |-> ENOENT, d |-> d, io |-> {}, hold |-> 0]
        ELSE IF d.dirty[dr].dr_override_state \in {"DR_IN_DMU_SYNC", "DR_OVERRIDDEN"}
        THEN [ret |-> EALREADY, d |-> d, io |-> {}, hold |-> 0]
        ELSE [ret |-> OK,
              d |-> [d EXCEPT !.dirty[dr].dr_override_state = "DR_IN_DMU_SYNC"],
              io |-> {[blk |-> b, txg |-> t, late |-> FALSE,
                       nopwrite |-> nopwrite, bp_orig |-> d.bp, tx |-> 0]},
              hold |-> 0]

\* a dmu_sync that leaves nopwrite on for a block that is freed in its dnode
dmu_sync_nofreed(b, t, zp_nop, freed, fault) ==
    LET d == Dbuf(b)
        dr == dbuf_find_dirty_eq(d.dirty, t)
        dr_next == list_next(d.dirty, dr)
        nopwrite == IF dr_next # 0 THEN FALSE
                    ELSE zp_nop
    IN  IF t > spa_freeze_txg
        THEN dmu_sync_late_arrival(b, t, fault)
        ELSE IF t <= spa_last_synced_txg
        THEN [ret |-> EEXIST, d |-> d, io |-> {}, hold |-> 0]
        ELSE IF t <= spa_syncing_txg
        THEN dmu_sync_late_arrival(b, t, fault)
        ELSE IF dr = 0
        THEN [ret |-> ENOENT, d |-> d, io |-> {}, hold |-> 0]
        ELSE IF d.dirty[dr].dr_override_state \in {"DR_IN_DMU_SYNC", "DR_OVERRIDDEN"}
        THEN [ret |-> EALREADY, d |-> d, io |-> {}, hold |-> 0]
        ELSE [ret |-> OK,
              d |-> [d EXCEPT !.dirty[dr].dr_override_state = "DR_IN_DMU_SYNC"],
              io |-> {[blk |-> b, txg |-> t, late |-> FALSE,
                       nopwrite |-> nopwrite, bp_orig |-> d.bp, tx |-> 0]},
              hold |-> 0]

\* dmu_sync: zp_nop is the policy's nopwrite, freed is dnode_block_freed(),
\* fault names the step of the late arrival path that fails, if any
dmu_sync(b, t, zp_nop, freed, fault) ==
    LET d == Dbuf(b)
        dr == dbuf_find_dirty_eq(d.dirty, t)
        dr_next == list_next(d.dirty, dr)
        nopwrite == IF dr_next # 0 THEN FALSE
                    ELSE IF freed THEN FALSE ELSE zp_nop
    IN  IF t > spa_freeze_txg
        THEN dmu_sync_late_arrival(b, t, fault)
        ELSE IF t <= spa_last_synced_txg
        THEN [ret |-> EEXIST, d |-> d, io |-> {}, hold |-> 0]
        ELSE IF t <= spa_syncing_txg
        THEN dmu_sync_late_arrival(b, t, fault)
        ELSE IF dr = 0
        THEN [ret |-> ENOENT, d |-> d, io |-> {}, hold |-> 0]
        ELSE IF d.dirty[dr].dr_override_state \in {"DR_IN_DMU_SYNC", "DR_OVERRIDDEN"}
        THEN [ret |-> EALREADY, d |-> d, io |-> {}, hold |-> 0]
        ELSE [ret |-> OK,
              d |-> [d EXCEPT !.dirty[dr].dr_override_state = "DR_IN_DMU_SYNC"],
              io |-> {[blk |-> b, txg |-> t, late |-> FALSE,
                       nopwrite |-> nopwrite, bp_orig |-> d.bp, tx |-> 0]},
              hold |-> 0]

\* thread z of the intent log calls dmu_sync for block b and txg t
DmuSync(z, b, t, zp_nop, freed, fault) ==
    LET res == dmu_sync(b, t, zp_nop, freed, fault)
    IN  /\ ~InFlight(z)
        /\ ~WriteLocked(b)
        /\ t <= tx_open_txg
        /\ SetDbuf(b, res.d)
        /\ zios' = zios \cup {[z |-> z, blk |-> io.blk, txg |-> io.txg,
                               late |-> io.late, nopwrite |-> io.nopwrite,
                               bp_orig |-> io.bp_orig, tx |-> io.tx] :
                              io \in res.io}
        /\ call' = [op |-> "dmu_sync", z |-> z, blk |-> b, txg |-> t,
                     ret |-> res.ret]
        /\ tc_count' = IF res.hold = 0 THEN tc_count
                       ELSE [tc_count EXCEPT ![res.hold] = @ + 1]
        /\ UNCHANGED <<txg_state, spa_freeze_txg, wr, brt_pending, logical,
                       vopVars, policyVars, freeVars, db_changed, nops>>

\* zio_nop_write: the write is elided when the policy allows it and the data
\* is what the original block pointer already holds
ZioNopwrite(io, data) ==
    /\ io.nopwrite
    /\ ~BP_IS_HOLE(io.bp_orig)
    /\ io.bp_orig.data = data

\* a done callback that leaves the record in-sync when the write failed
dmu_sync_done_stuck(d, io, err) ==
    LET dr == dbuf_find_dirty_eq(d.dirty, io.txg)
        data == DataOf(d, d.dirty[dr])
        nop == ZioNopwrite(io, data)
        bp == IF nop THEN io.bp_orig ELSE WrittenBP(io.txg, data)
    IN  IF err = OK
        THEN [d EXCEPT !.dirty[dr] = [d.dirty[dr] EXCEPT
                    !.dr_nopwrite = nop,
                    !.dr_overridden_by = bp,
                    !.dr_override_state = "DR_OVERRIDDEN"]]
        ELSE d

\* dmu_sync_done: the write of io completed with zio->io_error = err
dmu_sync_done(d, io, err) ==
    LET dr == dbuf_find_dirty_eq(d.dirty, io.txg)
        data == DataOf(d, d.dirty[dr])
        nop == ZioNopwrite(io, data)
        bp == IF nop THEN io.bp_orig ELSE WrittenBP(io.txg, data)
    IN  IF err = OK
        THEN [d EXCEPT !.dirty[dr] = [d.dirty[dr] EXCEPT
                    !.dr_nopwrite = nop,
                    !.dr_overridden_by = bp,
                    !.dr_override_state = "DR_OVERRIDDEN"]]
        ELSE [d EXCEPT !.dirty[dr].dr_override_state = "DR_NOT_OVERRIDDEN"]

\* a done callback that wakes nobody
cv_broadcast_none(cv, b) == cv

\* cv_broadcast(&db->db_changed): every thread that sleeps on it is woken
cv_broadcast(cv, b) == [cv EXCEPT ![b] = {}]


DmuSyncDone(io, err) ==
    /\ io \in zios
    /\ ~io.late
    /\ SetDbuf(io.blk, dmu_sync_done(Dbuf(io.blk), io, err))
    /\ db_changed' = cv_broadcast(db_changed, io.blk)
    /\ zios' = zios \ {io}
    /\ call' = [op |-> "done", z |-> io.z, blk |-> io.blk, txg |-> io.txg,
                 ret |-> err]
    /\ UNCHANGED <<pipeVars, wr, brt_pending, logical, vopVars, policyVars, freeVars, nops>>

\* dmu_sync_late_arrival_done: the block is freed again, the transaction
\* commits and the done callback runs
DmuSyncLateArrivalDone(io, err) ==
    /\ io \in zios
    /\ io.late
    /\ tc_count' = [tc_count EXCEPT ![io.tx] = @ - 1]
    /\ zios' = zios \ {io}
    /\ call' = [op |-> "done", z |-> io.z, blk |-> io.blk, txg |-> io.txg,
                 ret |-> err,
                 zio_free |-> (err = OK /\ ~BP_IS_HOLE(WrittenBP(io.tx, db_data[io.blk])))]
    /\ UNCHANGED <<txg_state, spa_freeze_txg, dbufVars, wr, brt_pending,
                   logical, vopVars, policyVars, freeVars, db_changed, nops>>

(***************************************************************************)
(* Block cloning (dmu_read_l0_bps, dmu_brt_clone).                         *)
(***************************************************************************)
\* a loop body that takes the overridden pointer of any newest dirty record
dmu_read_l0_bp_buf_anydirty(d, freeze, synced) ==
    LET bp == IF d.dirty # <<>> THEN Head(d.dirty).dr_overridden_by ELSE d.bp
    IN  IF BP_GET_BIRTH(bp) > freeze
        THEN [err |-> EINVAL, bp |-> HoleBP]
        ELSE IF BP_GET_BIRTH(bp) > synced
        THEN [err |-> EAGAIN, bp |-> HoleBP]
        ELSE [err |-> OK, bp |-> bp]

\* the body of the loop of dmu_read_l0_bps for buffer d, with the values of
\* spa_freeze_txg and spa_last_synced_txg
dmu_read_l0_bp_buf(d, freeze, synced) ==
    LET viaClone == d.dirty # <<>> /\ Head(d.dirty).dr_brtwrite
        bp == IF viaClone THEN Head(d.dirty).dr_overridden_by ELSE d.bp
    IN  IF d.dirty # <<>> /\ ~viaClone THEN [err |-> EAGAIN, bp |-> HoleBP]
        ELSE IF BP_GET_BIRTH(bp) > freeze
        THEN [err |-> EINVAL, bp |-> HoleBP]
        ELSE IF BP_GET_BIRTH(bp) > synced
        THEN [err |-> EAGAIN, bp |-> HoleBP]
        ELSE [err |-> OK, bp |-> bp]

\* dmu_read_l0_bps for one block: the error, or 0 and the block pointer
dmu_read_l0_bp(b) ==
    dmu_read_l0_bp_buf(Dbuf(b), spa_freeze_txg, spa_last_synced_txg)

\* the caller reads the block pointers of the source blocks, assigns its
\* transaction and holds the destination buffers
DmuCloneBegin(w, off, len, src) ==
    LET n == HoldArrayNblks(off, len)
    IN  /\ wr[w].pc = "idle"
        /\ nops < MaxOps
        /\ nops' = nops + 1
        /\ \A b \in RangeBlocks(off, len) : ~WriteLocked(b) /\ ~ReadLocked(b)
        /\ \A b \in src .. (src + n - 1) :
              b \in Blocks /\ ~WriteLocked(b) /\ dmu_read_l0_bp(b).err = OK
        /\ wr' = [wr EXCEPT ![w] = [IdleWriter EXCEPT
                      !.pc = "clone", !.txg = tx_open_txg, !.off0 = off,
                      !.len0 = len, !.offset = off, !.size = len,
                      !.bps = [m \in 1 .. n |-> dmu_read_l0_bp(src + m - 1).bp]]]
        /\ tc_count' = [tc_count EXCEPT ![tx_open_txg] = @ + 1]
        /\ call' = NoCall
        /\ UNCHANGED <<txg_state, spa_freeze_txg, dbufVars, zios,
                       brt_pending, logical, vopVars, policyVars, freeVars, db_changed>>

\* a clone that puts its record at the head of the list and keeps the record
\* the buffer may have in the same group
dmu_brt_clone_buf_keep(d, bp, txg) ==
    [d EXCEPT !.st = "DB_NOFILL",
              !.dirty = <<[NewDirtyRecord(txg, FALSE) EXCEPT
                              !.dr_overridden_by = bp,
                              !.dr_brtwrite = TRUE,
                              !.dr_override_state = "DR_OVERRIDDEN"]>>
                            \o d.dirty]

\* a clone that stores the block pointer as it was handed in
dmu_brt_clone_buf_nobirth(d, bp, txg) ==
    LET d1 == dmu_buf_will_clone_or_dio(d, txg)
    IN  [d1 EXCEPT !.dirty[1] = [d1.dirty[1] EXCEPT
                !.dr_overridden_by = bp,
                !.dr_brtwrite = TRUE,
                !.dr_override_state = "DR_OVERRIDDEN"]]

\* the body of the second loop of dmu_brt_clone for buffer dbp[i]
dmu_brt_clone_buf(d, bp, txg) ==
    LET d1 == dmu_buf_will_clone_or_dio(d, txg)
        by == IF ~BP_IS_HOLE(bp) \/ BP_GET_LOGICAL_BIRTH(bp) # 0
              THEN [bp EXCEPT !.lbirth = txg, !.pbirth = BP_GET_BIRTH(bp)]
              ELSE bp
    IN  [d1 EXCEPT !.dirty[1] = [d1.dirty[1] EXCEPT
                !.dr_overridden_by = by,
                !.dr_brtwrite = TRUE,
                !.dr_override_state = "DR_OVERRIDDEN"]]

DmuBrtClone(w) ==
    LET r == wr[w]
        b == WBlk(r)
        bp == r.bps[r.i + 1]
        d == dmu_brt_clone_buf(Dbuf(b), bp, r.txg)
        last == r.i + 1 = WNumbufs(r)
    IN  /\ r.pc = "clone"
        /\ SetDbuf(b, d)
        /\ brt_pending' = IF ~BP_IS_HOLE(bp)
                          THEN BrtKeep(b, d, brt_pending) \cup {<<b, r.txg>>}
                          ELSE BrtKeep(b, d, brt_pending)
        /\ wr' = [wr EXCEPT ![w].i = r.i + 1,
                            ![w].pc = IF last THEN "done" ELSE "clone"]
        /\ logical' = IF last
                      THEN [c \in Blocks |->
                              IF c \in RangeBlocks(r.off0, r.len0)
                              THEN [txg |-> r.txg,
                                    data |-> r.bps[c - dbuf_whichblock(r.off0) + 1].data]
                              ELSE logical[c]]
                      ELSE logical
        /\ call' = NoCall
        /\ UNCHANGED <<pipeVars, zios, vopVars, policyVars, freeVars, db_changed, nops>>

(***************************************************************************)
(* dmu_write_policy (dmu.c): the write policy of a block.                  *)
(***************************************************************************)
\* the highest indirection level of the writes looked at
MaxLevel == 2

\* the number of DVAs of a block pointer
SPA_DVAS_PER_BP == 3

\* indirect blocks of this level and higher get a ditto block under
\* redundant_metadata=most
zfs_redundant_metadata_most_ditto_level == 2

\* dmu_ot[]: ot_metadata and ot_encrypt of the object types looked at;
\* DMU_OTN_UINT8_DATA is DMU_OT(DMU_BSWAP_UINT8, B_FALSE, B_FALSE)
dmu_ot ==
    [DMU_OT_PLAIN_FILE_CONTENTS |-> [ot_metadata |-> FALSE, ot_encrypt |-> TRUE],
     DMU_OT_DIRECTORY_CONTENTS |-> [ot_metadata |-> TRUE, ot_encrypt |-> TRUE],
     DMU_OT_DNODE |-> [ot_metadata |-> TRUE, ot_encrypt |-> TRUE],
     DMU_OT_OBJSET |-> [ot_metadata |-> TRUE, ot_encrypt |-> FALSE],
     DMU_OT_DDT_ZAP |-> [ot_metadata |-> TRUE, ot_encrypt |-> FALSE],
     DMU_OTN_UINT8_DATA |-> [ot_metadata |-> FALSE, ot_encrypt |-> FALSE]]

ObjectTypes == DOMAIN dmu_ot

DMU_OT_IS_METADATA(type) == dmu_ot[type].ot_metadata
DMU_OT_IS_ENCRYPTED(type) == dmu_ot[type].ot_encrypt
DMU_OT_IS_CRITICAL(type, level) ==
    /\ DMU_OT_IS_METADATA(type)
    /\ \/ type \notin {"DMU_OT_DNODE", "DMU_OT_DIRECTORY_CONTENTS"}
       \/ level > 0

\* zio_checksum_table[].ci_flags
zio_checksum_flags ==
    [off |-> {},
     fletcher2 |-> {},
     fletcher4 |-> {"ZCHECKSUM_FLAG_METADATA"},
     sha256 |-> {"ZCHECKSUM_FLAG_METADATA", "ZCHECKSUM_FLAG_DEDUP",
                 "ZCHECKSUM_FLAG_NOPWRITE"},
     label |-> {"ZCHECKSUM_FLAG_METADATA", "ZCHECKSUM_FLAG_EMBEDDED"}]

\* zio_checksum_select and zio_compress_select: a dnode that inherits takes
\* the value of the dataset, "on" stands for the default function
zio_checksum_select(child, parent) ==
    IF child = "inherit" THEN parent
    ELSE IF child = "on" THEN "fletcher4"
    ELSE child

zio_compress_select(child, parent) ==
    LET result == IF child = "inherit" THEN parent ELSE child
    IN  IF result = "on" THEN "lz4" ELSE result

\* the write-purpose flags the callers pass, with the levels they pass them
\* for: dbuf_write passes WP_NOFILL or WP_SPILL for a level-0 buffer,
\* dmu_sync passes WP_DMU_SYNC for a level-0 buffer
WriteFlags(level) ==
    IF level = 0
    THEN {{}, {"WP_NOFILL"}, {"WP_SPILL"}, {"WP_DMU_SYNC"},
          {"WP_DMU_SYNC", "WP_DIRECT_WR"}}
    ELSE {{}}

\* the settings that decide the checksum, dedup and nopwrite of a write,
\* and the settings that decide the number of copies
HashSettings ==
    [os_checksum : {"off", "fletcher2", "fletcher4", "sha256"},
     os_compress : {"off", "on"},
     dn_checksum : {"inherit", "sha256"},
     dn_compress : {"inherit"},
     os_dedup_checksum : {"off", "sha256"},
     os_dedup_verify : BOOLEAN,
     zfs_nopwrite_enabled : BOOLEAN]

CopySettings ==
    [os_copies : 1 .. SPA_DVAS_PER_BP,
     os_redundant_metadata : {"ZFS_REDUNDANT_METADATA_ALL",
                              "ZFS_REDUNDANT_METADATA_MOST",
                              "ZFS_REDUNDANT_METADATA_SOME",
                              "ZFS_REDUNDANT_METADATA_NONE"},
     dmu_ddt_copies : {0, 2},
     spa_max_replication : {2, SPA_DVAS_PER_BP}]

DefaultHash ==
    [os_checksum |-> "sha256", os_compress |-> "on", dn_checksum |-> "inherit",
     dn_compress |-> "inherit", os_dedup_checksum |-> "off",
     os_dedup_verify |-> FALSE, zfs_nopwrite_enabled |-> TRUE]

DefaultCopy ==
    [os_copies |-> 1, os_redundant_metadata |-> "ZFS_REDUNDANT_METADATA_ALL",
     dmu_ddt_copies |-> 0, spa_max_replication |-> SPA_DVAS_PER_BP]

\* the level and the write-purpose flags of a write
WriteKinds ==
    {<<0, wp>> : wp \in WriteFlags(0)}
    \cup {<<lv, wp>> : lv \in 1 .. MaxLevel, wp \in WriteFlags(1)}

\* the arguments of dmu_write_policy: every block, dataset encrypted or not,
\* with every hash setting under the default copy setting and with every
\* copy setting under the default hash setting
PolicyInputs ==
    {[type |-> ty, level |-> k[1], wp |-> k[2], os_encrypted |-> enc,
      hash |-> st[1], copy |-> st[2]] :
        ty \in ObjectTypes, k \in WriteKinds, enc \in BOOLEAN,
        st \in (HashSettings \X {DefaultCopy})
               \cup ({DefaultHash} \X CopySettings)}

\* ismd of dmu_write_policy
IsMetadataWrite(in) ==
    \/ in.level > 0
    \/ DMU_OT_IS_METADATA(in.type)
    \/ "WP_SPILL" \in in.wp

\* a metadata write that keeps the checksum of the dataset
MetadataChecksum_keep(checksum) == checksum

\* the checksum of a metadata write
MetadataChecksum(checksum) ==
    IF \/ "ZCHECKSUM_FLAG_METADATA" \notin zio_checksum_flags[checksum]
       \/ "ZCHECKSUM_FLAG_EMBEDDED" \in zio_checksum_flags[checksum]
    THEN "fletcher4"
    ELSE checksum

\* redundant_metadata=most that gives an extra copy to every level
MetadataCopies_anylevel(in) ==
    LET copies == in.copy.os_copies
        md == DMU_OT_IS_METADATA(in.type) \/ "WP_SPILL" \in in.wp
        rm == in.copy.os_redundant_metadata
    IN  IF rm = "ZFS_REDUNDANT_METADATA_ALL"
        THEN [copies |-> copies + 1, gang_copies |-> copies + 1]
        ELSE IF rm = "ZFS_REDUNDANT_METADATA_MOST"
        THEN [copies |-> copies + 1,
              gang_copies |->
                 IF in.level + 1 >= zfs_redundant_metadata_most_ditto_level
                    \/ md
                 THEN copies + 1 ELSE copies]
        ELSE IF rm = "ZFS_REDUNDANT_METADATA_SOME"
        THEN IF DMU_OT_IS_CRITICAL(in.type, in.level)
             THEN [copies |-> copies + 1, gang_copies |-> copies + 1]
             ELSE IF DMU_OT_IS_METADATA(in.type)
             THEN [copies |-> copies, gang_copies |-> copies + 1]
             ELSE [copies |-> copies, gang_copies |-> copies]
        ELSE [copies |-> copies, gang_copies |-> copies]

\* switch (os->os_redundant_metadata): the copies of a metadata write
MetadataCopies(in) ==
    LET copies == in.copy.os_copies
        md == DMU_OT_IS_METADATA(in.type) \/ "WP_SPILL" \in in.wp
        rm == in.copy.os_redundant_metadata
    IN  IF rm = "ZFS_REDUNDANT_METADATA_ALL"
        THEN [copies |-> copies + 1, gang_copies |-> copies + 1]
        ELSE IF rm = "ZFS_REDUNDANT_METADATA_MOST"
        THEN [copies |->
                 IF in.level >= zfs_redundant_metadata_most_ditto_level \/ md
                 THEN copies + 1 ELSE copies,
              gang_copies |->
                 IF in.level + 1 >= zfs_redundant_metadata_most_ditto_level
                    \/ md
                 THEN copies + 1 ELSE copies]
        ELSE IF rm = "ZFS_REDUNDANT_METADATA_SOME"
        THEN IF DMU_OT_IS_CRITICAL(in.type, in.level)
             THEN [copies |-> copies + 1, gang_copies |-> copies + 1]
             ELSE IF DMU_OT_IS_METADATA(in.type)
             THEN [copies |-> copies, gang_copies |-> copies + 1]
             ELSE [copies |-> copies, gang_copies |-> copies]
        ELSE [copies |-> copies, gang_copies |-> copies]

\* if (dmu_ddt_copies > 0): the copies of a write of a dedup table object;
\* dn_storage_type is DMU_OT_NONE, so that stype is the type of the object
DdtCopies(in, copies) ==
    IF in.copy.dmu_ddt_copies > 0 /\ in.type = "DMU_OT_DDT_ZAP"
    THEN IF in.level >= zfs_redundant_metadata_most_ditto_level
         THEN in.copy.dmu_ddt_copies + 1
         ELSE in.copy.dmu_ddt_copies
    ELSE copies

\* a dedup setting that is on in dmu_sync as well
DedupSetting_insync(in) == in.hash.os_dedup_checksum # "off"

\* dedup = (wp & WP_DMU_SYNC) ? B_FALSE : B_TRUE, when the dataset has a
\* dedup checksum
DedupSetting(in) ==
    /\ in.hash.os_dedup_checksum # "off"
    /\ "WP_DMU_SYNC" \notin in.wp

\* a nopwrite setting that does not look at dedup
NopwriteSetting_nodedup(dedup, checksum, compress, enabled) ==
    /\ "ZCHECKSUM_FLAG_NOPWRITE" \in zio_checksum_flags[checksum]
    /\ compress # "off"
    /\ enabled

\* nopwrite = (!dedup && ... ZCHECKSUM_FLAG_NOPWRITE && compress !=
\* ZIO_COMPRESS_OFF && zfs_nopwrite_enabled)
NopwriteSetting(dedup, checksum, compress, enabled) ==
    /\ ~dedup
    /\ "ZCHECKSUM_FLAG_NOPWRITE" \in zio_checksum_flags[checksum]
    /\ compress # "off"
    /\ enabled

\* the policy before the encryption of the dataset is looked at
PolicyPlain(in) ==
    IF IsMetadataWrite(in)
    THEN LET mc == MetadataCopies(in)
         IN  [compress |-> zio_compress_select("on", "on"),
              checksum |-> MetadataChecksum(in.hash.os_checksum),
              copies |-> DdtCopies(in, mc.copies),
              gang_copies |-> mc.gang_copies,
              dedup |-> FALSE, dedup_verify |-> in.hash.os_dedup_verify,
              nopwrite |-> FALSE]
    ELSE IF "WP_NOFILL" \in in.wp
    THEN [compress |-> "off", checksum |-> "off",
          copies |-> in.copy.os_copies, gang_copies |-> in.copy.os_copies,
          dedup |-> FALSE, dedup_verify |-> in.hash.os_dedup_verify,
          nopwrite |-> FALSE]
    ELSE LET c0 == zio_compress_select(in.hash.dn_compress,
                                       in.hash.os_compress)
             compress == IF c0 = "off" /\ in.hash.os_dedup_checksum # "off"
                         THEN "empty" ELSE c0
             checksum == IF in.hash.os_dedup_checksum = "off"
                         THEN zio_checksum_select(in.hash.dn_checksum,
                                                  in.hash.os_checksum)
                         ELSE in.hash.os_dedup_checksum
             dedup == DedupSetting(in)
             rm == in.copy.os_redundant_metadata
         IN  [compress |-> compress, checksum |-> checksum,
              copies |-> in.copy.os_copies,
              gang_copies |->
                 IF \/ rm = "ZFS_REDUNDANT_METADATA_ALL"
                    \/ /\ rm = "ZFS_REDUNDANT_METADATA_MOST"
                       /\ zfs_redundant_metadata_most_ditto_level <= 1
                 THEN in.copy.os_copies + 1 ELSE in.copy.os_copies,
              dedup |-> dedup,
              dedup_verify |->
                 IF /\ in.hash.os_dedup_checksum # "off"
                    /\ "ZCHECKSUM_FLAG_DEDUP" \notin zio_checksum_flags[checksum]
                 THEN TRUE ELSE in.hash.os_dedup_verify,
              nopwrite |-> NopwriteSetting(dedup, checksum, compress,
                                           in.hash.zfs_nopwrite_enabled)]

\* an encrypted dataset that leaves nopwrite on for its encrypted objects
EncryptAdjust_keepnop(in, p) ==
    IF in.os_encrypted /\ "WP_NOFILL" \notin in.wp
    THEN LET q == IF DMU_OT_IS_ENCRYPTED(in.type)
                  THEN [p EXCEPT
                          !.copies = Min(@, SPA_DVAS_PER_BP - 1),
                          !.gang_copies = Min(@, SPA_DVAS_PER_BP - 1)]
                  ELSE [p EXCEPT !.dedup = FALSE]
         IN  [q EXCEPT !.compress =
                 IF in.level <= 0 /\ in.type \in {"DMU_OT_DNODE", "DMU_OT_OBJSET"}
                 THEN "empty" ELSE @]
    ELSE p

\* if (os->os_encrypted && (wp & WP_NOFILL) == 0)
EncryptAdjust(in, p) ==
    IF in.os_encrypted /\ "WP_NOFILL" \notin in.wp
    THEN LET q == IF DMU_OT_IS_ENCRYPTED(in.type)
                  THEN [p EXCEPT
                          !.copies = Min(@, SPA_DVAS_PER_BP - 1),
                          !.gang_copies = Min(@, SPA_DVAS_PER_BP - 1),
                          !.nopwrite = FALSE]
                  ELSE [p EXCEPT !.dedup = FALSE]
         IN  [q EXCEPT !.compress =
                 IF in.level <= 0 /\ in.type \in {"DMU_OT_DNODE", "DMU_OT_OBJSET"}
                 THEN "empty" ELSE @]
    ELSE p

Max(a, b) == IF a > b THEN a ELSE b

\* dmu_write_policy: the zio_prop_t it fills in
dmu_write_policy(in) ==
    LET p == EncryptAdjust(in, PolicyPlain(in))
    IN  [zp_compress |-> p.compress,
         zp_checksum |-> p.checksum,
         zp_type |-> in.type,
         zp_level |-> in.level,
         zp_copies |-> Min(p.copies, in.copy.spa_max_replication),
         zp_gang_copies |-> Min(Max(p.gang_copies, p.copies),
                                in.copy.spa_max_replication),
         zp_dedup |-> p.dedup,
         zp_dedup_verify |-> p.dedup /\ p.dedup_verify,
         zp_nopwrite |-> p.nopwrite,
         zp_encrypt |-> in.os_encrypted /\ "WP_NOFILL" \notin in.wp,
         zp_direct_write |-> "WP_DIRECT_WR" \in in.wp]

\* no call of dmu_write_policy is looked at
IdlePolicy ==
    [in |-> [type |-> "DMU_OT_PLAIN_FILE_CONTENTS", level |-> 0, wp |-> {},
             os_encrypted |-> FALSE, hash |-> DefaultHash,
             copy |-> DefaultCopy],
     done |-> FALSE,
     zp |-> dmu_write_policy([type |-> "DMU_OT_PLAIN_FILE_CONTENTS",
                              level |-> 0, wp |-> {}, os_encrypted |-> FALSE,
                              hash |-> DefaultHash, copy |-> DefaultCopy])]

\* a caller fills in the zio_prop_t of its write
DmuWritePolicy ==
    /\ ~pol.done
    /\ pol' = [pol EXCEPT !.done = TRUE, !.zp = dmu_write_policy(pol.in)]
    /\ UNCHANGED <<pipeVars, dbufVars, wr, zios, call, nops, brt_pending,
                   logical, vopVars, db_changed, freeVars, funcVars>>

(***************************************************************************)
(* dmu_free_long_range (dmu.c): a long range is freed chunk by chunk, each *)
(* chunk in a transaction of its own.                                      *)
(***************************************************************************)
\* the object of a caller: FreeL1s level-1 indirect blocks, each with
\* EPB(dn_indblkshift, SPA_BLKPTRSHIFT) data blocks of dn_datablksz bytes
FreeL1s == 3
SPA_BLKPTRSHIFT == 7
dn_indblkshift == 8
dn_datablksz == 1
DMU_MAX_ACCESS == 1024
zfs_dirty_data_max == 1024
\* the calls of dmu_free_long_range looked at
MaxFreeCalls == 2

DMU_OBJECT_END == -1
EINTR == "EINTR"
ENOSPC == "ENOSPC"

FreeCallers == {"f1", "f2"}

EPB(blkshift, typeshift) == 2 ^ (blkshift - typeshift)
\* bytes of data covered by a level-1 indirect block
iblkrange == dn_datablksz * EPB(dn_indblkshift, SPA_BLKPTRSHIFT)
\* the cap on the level-1 blocks of a chunk
maxblks == DMU_MAX_ACCESS \div (2 ^ (dn_indblkshift + 1))

FreeObjBlks == FreeL1s * EPB(dn_indblkshift, SPA_BLKPTRSHIFT)
FreeObjSize == FreeObjBlks * dn_datablksz

roundup(x, y) == ((x + y - 1) \div y) * y

\* the data blocks of level-1 block i, and the allocated level-1 blocks of a
\* set of allocated data blocks
BlocksOfL1(i) ==
    {b \in 0 .. (FreeObjBlks - 1) :
        b \div EPB(dn_indblkshift, SPA_BLKPTRSHIFT) = i}
AllocatedL1s(alloc) ==
    {i \in 0 .. (FreeL1s - 1) : BlocksOfL1(i) \cap alloc # {}}

\* the data blocks that lie in the bytes [off, off + len)
BlocksIn(off, len) ==
    {b \in 0 .. (FreeObjBlks - 1) :
        off <= b * dn_datablksz /\ (b + 1) * dn_datablksz <= off + len}

\* dnode_next_offset(dn, DNODE_FIND_BACKWARDS, &start, 2, 1, 0): the
\* allocated level-1 blocks at or before the offset
L1sAtOrBefore(alloc, start) ==
    {i \in AllocatedL1s(alloc) : i * iblkrange <= start}

\* the loop of get_next_chunk
RECURSIVE ChunkLoop(_, _, _, _)
ChunkLoop(alloc, start, minimum, blks) ==
    IF start > minimum /\ blks < maxblks
    THEN IF L1sAtOrBefore(alloc, start - 1) = {}
         THEN [start |-> minimum, l1blks |-> blks]
         ELSE ChunkLoop(alloc,
                        P2ALIGN(SetMax(L1sAtOrBefore(alloc, start - 1))
                                    * iblkrange, iblkrange),
                        minimum, blks + 1)
    ELSE [start |-> IF start < minimum THEN minimum ELSE start,
          l1blks |-> blks]

\* a chunk that takes every level-1 block down to the minimum
get_next_chunk_nocap(dn, start, minimum) ==
    LET total_l1blks ==
            (roundup(start, iblkrange) - (minimum \div iblkrange) * iblkrange)
                \div iblkrange
    IN  IF dn.nlevels <= 1
        THEN [start |-> minimum, l1blks |-> 0]
        ELSE [start |-> minimum, l1blks |-> total_l1blks]

\* a search that does not move start when the range is over the cap
get_next_chunk_stay(dn, start, minimum) ==
    LET total_l1blks ==
            (roundup(start, iblkrange) - (minimum \div iblkrange) * iblkrange)
                \div iblkrange
    IN  IF dn.nlevels <= 1
        THEN [start |-> minimum, l1blks |-> 0]
        ELSE IF total_l1blks <= maxblks
        THEN [start |-> minimum, l1blks |-> total_l1blks]
        ELSE [start |-> start, l1blks |-> 0]

\* get_next_chunk: the first offset to free and the level-1 blocks counted
get_next_chunk(dn, start, minimum) ==
    LET total_l1blks ==
            (roundup(start, iblkrange) - (minimum \div iblkrange) * iblkrange)
                \div iblkrange
    IN  IF dn.nlevels <= 1
        THEN [start |-> minimum, l1blks |-> 0]
        ELSE IF total_l1blks <= maxblks
        THEN [start |-> minimum, l1blks |-> total_l1blks]
        ELSE ChunkLoop(dn.alloc, start, minimum, 0)

\* get_next_chunk looks for allocated level-1 blocks, where
\* dnode_next_offset can fail
ChunkSearches(dn, start, minimum) ==
    /\ dn.nlevels > 1
    /\ (roundup(start, iblkrange) - (minimum \div iblkrange) * iblkrange)
           \div iblkrange > maxblks

\* dirty_frees_threshold of dmu_free_long_range_impl
dirty_frees_threshold(percent) ==
    IF percent <= 100
    THEN (percent * zfs_dirty_data_max) \div 100
    ELSE zfs_dirty_data_max \div 20

\* the values of the tunable zfs_per_txg_dirty_frees_percent
FreesPercents == {0, 25, 50}

\* dnode_free_range: the data blocks of the range are holes
dnode_free_range(dn, off, len) == [dn EXCEPT !.alloc = @ \ BlocksIn(off, len)]

\* a caller that is in no call, and the call before the current one; chunks
\* lists the <<chunk_begin, chunk_len>> handed to dnode_free_range so far
NoFree ==
    [ret |-> "none", offset |-> 0, len0 |-> 0, len1 |-> 0, length |-> 0,
     alloc0 |-> {}]
IdleFree ==
    [pc |-> "idle", offset |-> 0, len0 |-> 0, len1 |-> 0, length |-> 0,
     chunk_begin |-> 0,
     l1blks |-> 0, txg |-> 0, long_free_dirty |-> 0, threshold |-> 0,
     waitfor |-> 0, ret |-> "none", ntx |-> 0, alloc0 |-> {}, prev |-> NoFree,
     long_object |-> FALSE, otx |-> 0, chunks |-> <<>>]

FreeCalls == Cardinality({c \in FreeCallers : fr[c].pc # "idle"})
             + Cardinality({c \in FreeCallers : fr[c].prev.ret # "none"})

\* the requested ranges: from the start of the object and from inside its
\* first level-1 block, to the end of the object and into the next level-1
\* block
FreeOffsets == {0, dn_datablksz}
FreeLengths == {DMU_OBJECT_END, iblkrange + dn_datablksz}
\* a caller whose last call failed can call again for what is left
ResumeRanges(c) ==
    IF fr[c].pc = "done" /\ fr[c].ret # OK
    THEN {<<fr[c].offset, fr[c].length>>} ELSE {}
FreeRanges(c) ==
    {<<off, len>> : off \in FreeOffsets, len \in FreeLengths}
    \cup ResumeRanges(c)

\* a dmu_free_long_object that goes on to the descriptor whatever
\* dmu_free_long_range returned
AfterDataFree_anyerr(r, err) == IF r.long_object THEN "object" ELSE "done"

\* where the caller is after dmu_free_long_range has returned err:
\* dmu_free_long_object returns err if it is not 0 and goes on to the
\* descriptor otherwise
AfterDataFree(r, err) ==
    IF r.long_object /\ err = OK THEN "object" ELSE "done"

\* a return that leaves the maxblkid as it is
FreeReturn_keepmax(c, r, dn, err) ==
    /\ fr' = [fr EXCEPT ![c] = [r EXCEPT !.pc = AfterDataFree(r, err),
                                         !.ret = err]]
    /\ dnodes' = [dnodes EXCEPT ![c] = dn]

\* dmu_free_long_range returns err: the maxblkid is zeroed when the entire
\* object was freed
FreeReturn(c, r, dn, err) ==
    /\ fr' = [fr EXCEPT ![c] = [r EXCEPT !.pc = AfterDataFree(r, err),
                                         !.ret = err]]
    /\ dnodes' = [dnodes EXCEPT ![c] =
          IF err = OK /\ r.offset = 0 /\ r.len0 = DMU_OBJECT_END
          THEN [dn EXCEPT !.maxblkid = 0] ELSE dn]

\* dmu_free_long_range up to the loop of dmu_free_long_range_impl, called
\* by dmu_free_long_object or not
FreeEnter(c, offset, length, long_object) ==
    LET dn == dnodes[c]
        object_size == (dn.maxblkid + 1) * dn_datablksz
        len1 == IF offset >= object_size THEN 0
                ELSE IF length = DMU_OBJECT_END
                        \/ offset + length > object_size
                THEN object_size - offset ELSE length
        r == [IdleFree EXCEPT
                !.offset = offset, !.len0 = length,
                !.len1 = len1, !.length = len1,
                !.threshold =
                    dirty_frees_threshold(zfs_per_txg_dirty_frees_percent),
                !.alloc0 = dn.alloc,
                !.long_object = long_object,
                !.prev = IF fr[c].pc = "done"
                         THEN [ret |-> fr[c].ret, offset |-> fr[c].offset,
                               len0 |-> fr[c].len0, len1 |-> fr[c].len1,
                               length |-> fr[c].length,
                               alloc0 |-> fr[c].alloc0]
                         ELSE NoFree]
    IN  /\ fr[c].pc \in {"idle", "done"}
        /\ FreeCalls < MaxFreeCalls
        /\ IF ~dn.allocated
           THEN /\ fr' = [fr EXCEPT ![c] = [r EXCEPT !.pc = "done",
                                                     !.ret = ENOENT]]
                /\ dnodes' = dnodes
           ELSE IF offset >= object_size
           THEN FreeReturn(c, r, dn, OK)
           ELSE /\ fr' = [fr EXCEPT ![c] = [r EXCEPT !.pc = "top"]]
                /\ dnodes' = dnodes
        /\ UNCHANGED <<pipeVars, dbufVars, wr, zios, call, nops, brt_pending,
                       logical, vopVars, db_changed, policyVars,
                       dp_long_free_dirty_pertxg,
                       zfs_per_txg_dirty_frees_percent>>

\* dmu_free_long_range(os, object, offset, length)
FreeBegin(c, offset, length) == FreeEnter(c, offset, length, FALSE)

\* dmu_free_long_object: dmu_free_long_range(os, object, 0, DMU_OBJECT_END)
DmuFreeLongObject(c) == FreeEnter(c, 0, DMU_OBJECT_END, TRUE)

\* the final transaction of dmu_free_long_object: dmu_tx_create, the holds
\* and dmu_tx_assign; a transaction that is not assigned is aborted
FreeObjectAssign(c, fault) ==
    LET r == fr[c]
    IN  /\ r.pc = "object"
        /\ IF fault
           THEN /\ fr' = [fr EXCEPT ![c] = [r EXCEPT
                          !.pc = "done", !.ret = ENOSPC, !.otx = @ + 1]]
                /\ UNCHANGED tc_count
           ELSE /\ fr' = [fr EXCEPT ![c] = [r EXCEPT
                          !.pc = "objtx", !.txg = tx_open_txg,
                          !.otx = @ + 1]]
                /\ tc_count' = [tc_count EXCEPT ![tx_open_txg] = @ + 1]
        /\ UNCHANGED <<txg_state, spa_freeze_txg, dbufVars, wr, zios, call,
                       nops, brt_pending, logical, vopVars, db_changed,
                       policyVars, dnodes, dp_long_free_dirty_pertxg,
                       zfs_per_txg_dirty_frees_percent>>

\* a final transaction that is committed only when the object was freed
FreeObjectCommit_leak(c) ==
    LET r == fr[c]
    IN  /\ r.pc = "objtx"
        /\ \E objerr \in {OK, EIO} :
              /\ dnodes' = IF objerr = OK
                           THEN [dnodes EXCEPT ![c].allocated = FALSE]
                           ELSE dnodes
              /\ tc_count' = IF objerr = OK
                             THEN [tc_count EXCEPT ![r.txg] = @ - 1]
                             ELSE tc_count
              /\ fr' = [fr EXCEPT ![c] = [r EXCEPT !.pc = "done",
                                                   !.ret = objerr]]
        /\ UNCHANGED <<txg_state, spa_freeze_txg, dbufVars, wr, zios, call,
                       nops, brt_pending, logical, vopVars, db_changed,
                       policyVars, dp_long_free_dirty_pertxg,
                       zfs_per_txg_dirty_frees_percent>>

\* err = dmu_object_free(os, object, tx); dmu_tx_commit(tx): the transaction
\* commits whatever dmu_object_free returned
FreeObjectCommit(c) ==
    LET r == fr[c]
    IN  /\ r.pc = "objtx"
        /\ \E objerr \in {OK, EIO} :
              /\ dnodes' = IF objerr = OK
                           THEN [dnodes EXCEPT ![c].allocated = FALSE]
                           ELSE dnodes
              /\ fr' = [fr EXCEPT ![c] = [r EXCEPT !.pc = "done",
                                                   !.ret = objerr]]
        /\ tc_count' = [tc_count EXCEPT ![r.txg] = @ - 1]
        /\ UNCHANGED <<txg_state, spa_freeze_txg, dbufVars, wr, zios, call,
                       nops, brt_pending, logical, vopVars, db_changed,
                       policyVars, dp_long_free_dirty_pertxg,
                       zfs_per_txg_dirty_frees_percent>>

\* the head of the loop: the unmount check, get_next_chunk, dmu_tx_assign
\* and the read of the dirty bytes of the frees of the txg
FreeAssign(c, unmounting, fault) ==
    LET r == fr[c]
        dn == dnodes[c]
        chunk_end == r.offset + r.length
        chunk == get_next_chunk(dn, chunk_end, r.offset)
    IN  /\ r.pc = "top"
        /\ IF unmounting
           THEN FreeReturn(c, r, dn, EINTR) /\ UNCHANGED tc_count
           ELSE IF fault = "chunk" /\ ChunkSearches(dn, chunk_end, r.offset)
           THEN FreeReturn(c, r, dn, EIO) /\ UNCHANGED tc_count
           ELSE IF fault = "assign"
           THEN FreeReturn(c, r, dn, ENOSPC) /\ UNCHANGED tc_count
           ELSE /\ fr' = [fr EXCEPT ![c] = [r EXCEPT
                          !.pc = "assigned",
                          !.chunk_begin = chunk.start,
                          !.l1blks = chunk.l1blks,
                          !.txg = tx_open_txg,
                          !.long_free_dirty =
                              dp_long_free_dirty_pertxg[tx_open_txg]]]
                /\ tc_count' = [tc_count EXCEPT ![tx_open_txg] = @ + 1]
                /\ dnodes' = dnodes
        /\ UNCHANGED <<txg_state, spa_freeze_txg, dbufVars, wr, zios, call,
                       nops, brt_pending, logical, vopVars, db_changed,
                       policyVars, dp_long_free_dirty_pertxg,
                       zfs_per_txg_dirty_frees_percent>>

\* a chunk_len that is all that is left of the range
ChunkLen_whole(r) == r.length

\* chunk_len = chunk_end - chunk_begin
ChunkLen(r) == (r.offset + r.length) - r.chunk_begin

\* a throttle that holds no caller back
FreeThrottled_never(r) == FALSE

\* the frees of the txg have reached the threshold
FreeThrottled(r) ==
    r.threshold # 0 /\ r.long_free_dirty >= r.threshold

\* the rest of the loop body: the transaction commits without a free and
\* the caller waits for the next txg to open, or the level-1 blocks are
\* accounted to the txg, the chunk is freed and the transaction commits
FreeChunk(c) ==
    LET r == fr[c]
        dn == dnodes[c]
        chunk_len == ChunkLen(r)
        freed == dnode_free_range(dn, r.chunk_begin, chunk_len)
        after == [r EXCEPT !.length = @ - chunk_len, !.ntx = @ + 1,
                           !.chunks = Append(@, <<r.chunk_begin, chunk_len>>)]
    IN  /\ r.pc = "assigned"
        /\ tc_count' = [tc_count EXCEPT ![r.txg] = @ - 1]
        /\ IF FreeThrottled(r)
           THEN /\ fr' = [fr EXCEPT ![c] = [r EXCEPT
                          !.pc = "wait", !.waitfor = tx_open_txg + 1]]
                /\ UNCHANGED <<dnodes, dp_long_free_dirty_pertxg>>
           ELSE /\ dp_long_free_dirty_pertxg' =
                      [dp_long_free_dirty_pertxg EXCEPT
                          ![r.txg] = @ + r.l1blks * (2 ^ dn_indblkshift)]
                /\ IF after.length = 0
                   THEN FreeReturn(c, after, freed, OK)
                   ELSE /\ fr' = [fr EXCEPT ![c] = [after EXCEPT !.pc = "top"]]
                        /\ dnodes' = [dnodes EXCEPT ![c] = freed]
        /\ UNCHANGED <<txg_state, spa_freeze_txg, dbufVars, wr, zios, call,
                       nops, brt_pending, logical, vopVars, db_changed,
                       policyVars, zfs_per_txg_dirty_frees_percent>>

\* txg_wait_open(dp, 0, B_TRUE) returns: a later txg is open
FreeWaitOpenDone(c) ==
    /\ fr[c].pc = "wait"
    /\ tx_open_txg >= fr[c].waitfor
    /\ fr' = [fr EXCEPT ![c].pc = "top"]
    /\ UNCHANGED <<pipeVars, dbufVars, wr, zios, call, nops, brt_pending,
                   logical, vopVars, db_changed, policyVars, dnodes,
                   dp_long_free_dirty_pertxg,
                   zfs_per_txg_dirty_frees_percent>>

\* the objects before any free: two levels and every choice of allocated
\* level-1 blocks, or one level and one block
FreeDnodes ==
    {[alloc |-> UNION {BlocksOfL1(i) : i \in S}, maxblkid |-> FreeObjBlks - 1,
      nlevels |-> 2, allocated |-> TRUE] : S \in SUBSET (0 .. (FreeL1s - 1))}
    \cup {[alloc |-> {0}, maxblkid |-> 0, nlevels |-> 1, allocated |-> TRUE]}

FullDnode ==
    [alloc |-> 0 .. (FreeObjBlks - 1), maxblkid |-> FreeObjBlks - 1,
     nlevels |-> 2, allocated |-> TRUE]

\* no caller of dmu_free_long_range
InitFreeIdle ==
    /\ dnodes = [c \in FreeCallers |-> FullDnode]
    /\ fr = [c \in FreeCallers |-> IdleFree]
    /\ dp_long_free_dirty_pertxg = [t \in Txgs |-> 0]
    /\ zfs_per_txg_dirty_frees_percent = 0

(***************************************************************************)
(* dmu_write_impl (dmu.c) on the buffers of an object of WNBlk blocks of   *)
(* 2^WShift bytes, with every byte of the object and of the caller's       *)
(* buffer told apart.                                                      *)
(***************************************************************************)
WShift == 2
WNBlk == 3
WSz == 2 ^ WShift
WObjSize == WNBlk * WSz
WBlocks == 0 .. (WNBlk - 1)

\* byte a of the object before the write, byte n of the caller's buffer, and
\* the bytes of a buffer that has no data yet
OldByte(a) == WObjSize + a
NewByte(n) == n
OldData(blk) == [j \in 0 .. (WSz - 1) |-> OldByte((blk * WSz) + j)]
NoData == [j \in 0 .. (WSz - 1) |-> -1]

\* the buffers of the object before the call: cached or not, none dirty;
\* calls lists what dmu_write_impl called on the buffer, read tells whether
\* the block was read from disk for it
BufsBefore(cached) ==
    [blk \in WBlocks |->
        IF blk \in cached
        THEN [st |-> "DB_CACHED", data |-> OldData(blk), dirty |-> FALSE,
              calls |-> <<>>, read |-> FALSE]
        ELSE [st |-> "DB_UNCACHED", data |-> NoData, dirty |-> FALSE,
              calls |-> <<>>, read |-> FALSE]]

\* dmu_buf_will_dirty_flags: the block is read in whole and is dirty
BufWillDirty(db, blk) ==
    [db EXCEPT !.st = "DB_CACHED",
               !.data = IF db.st = "DB_UNCACHED" THEN OldData(blk) ELSE @,
               !.dirty = TRUE,
               !.calls = Append(@, "dmu_buf_will_dirty"),
               !.read = (db.st = "DB_UNCACHED")]

\* dmu_buf_will_fill_flags: the block is dirty and is not read
BufWillFill(db) ==
    [db EXCEPT !.st = IF db.st = "DB_UNCACHED" THEN "DB_FILL" ELSE @,
               !.dirty = TRUE,
               !.calls = Append(@, "dmu_buf_will_fill")]

\* dmu_buf_fill_done
BufFillDone(db) ==
    [db EXCEPT !.st = "DB_CACHED", !.calls = Append(@, "dmu_buf_fill_done")]

\* a loop that takes every buffer for wholly overwritten
WholeBlock_always(tocpy, db_size) == TRUE

\* a loop that takes every buffer for partly overwritten
WholeBlock_never(tocpy, db_size) == FALSE

\* if (tocpy == db->db_size)
WholeBlock(tocpy, db_size) == tocpy = db_size

\* the loop of dmu_write_impl from buffer i on; buf is the position in the
\* caller's buffer
RECURSIVE dmu_write_impl(_, _, _, _, _, _, _)
dmu_write_impl(dbp, first, numbufs, i, offset, size, buf) ==
    IF i = numbufs THEN dbp
    ELSE LET blk == first + i
             bufoff == offset - (blk * WSz)
             tocpy == Min(WSz - bufoff, size)
             db0 == IF WholeBlock(tocpy, WSz)
                    THEN BufWillFill(dbp[blk])
                    ELSE BufWillDirty(dbp[blk], blk)
             db1 == [db0 EXCEPT !.data =
                        [j \in 0 .. (WSz - 1) |->
                            IF j >= bufoff /\ j < bufoff + tocpy
                            THEN NewByte(buf + (j - bufoff))
                            ELSE db0.data[j]]]
             db2 == IF tocpy = WSz THEN BufFillDone(db1) ELSE db1
         IN  dmu_write_impl([dbp EXCEPT ![blk] = db2], first, numbufs, i + 1,
                            offset + tocpy, size - tocpy, buf + tocpy)

\* the calls of dmu_write looked at: every range inside the object and every
\* choice of cached buffers
WriteInputs ==
    {[offset |-> o, size |-> n, cached |-> c] :
        o \in 0 .. (WObjSize - 1), n \in 1 .. WObjSize,
        c \in SUBSET WBlocks}

IdleWrite ==
    [in |-> [offset |-> 0, size |-> 0, cached |-> {}], done |-> TRUE,
     bufs |-> BufsBefore({}), ret |-> OK, fails |-> 0]

\* the buffers dmu_buf_hold_array holds for the range
WFirst(in) == P2ALIGN(in.offset, WSz) \div WSz
WNblks(in) ==
    (P2ROUNDUP(in.offset + in.size, WSz) - P2ALIGN(in.offset, WSz)) \div WSz

\* a write that gives up with EIO, the buffers untouched, when a read failed
dmu_write_by_dnode_eio(w) ==
    IF w.fails > 0 THEN [w EXCEPT !.done = TRUE, !.ret = EIO]
    ELSE [w EXCEPT !.done = TRUE, !.ret = OK,
                   !.bufs = dmu_write_impl(w.bufs, WFirst(w.in), WNblks(w.in),
                                           0, w.in.offset, w.in.size, 0)]

\* dmu_write_by_dnode without Direct I/O: hold, dmu_write_impl, return (0)
dmu_write_by_dnode(w) ==
    [w EXCEPT !.done = TRUE, !.ret = OK,
              !.bufs = dmu_write_impl(w.bufs, WFirst(w.in), WNblks(w.in), 0,
                                      w.in.offset, w.in.size, 0)]

\* the write has a block to read: one it overwrites in part and whose
\* buffer is not cached
WriteMustRead(w) ==
    \E blk \in WBlocks :
        /\ w.bufs[blk].st = "DB_UNCACHED"
        /\ \E j, k \in 0 .. (WSz - 1) :
              /\ (blk * WSz) + j >= w.in.offset
              /\ (blk * WSz) + j < w.in.offset + w.in.size
              /\ \/ (blk * WSz) + k < w.in.offset
                 \/ (blk * WSz) + k >= w.in.offset + w.in.size

\* read attempts that fail during one write
MaxReadFails == 2

\* the read dmu_buf_will_dirty_flags issues is a must-succeed read
\* (DB_RF_MUST_SUCCEED): when it fails it is issued again, and the writer
\* stays in dmu_buf_will_dirty_flags
DmuWriteReadFail ==
    /\ ~wi.done
    /\ WriteMustRead(wi)
    /\ wi.fails < MaxReadFails
    /\ wi' = [wi EXCEPT !.fails = @ + 1]
    /\ UNCHANGED notWrite

\* a call of dmu_write or dmu_write_by_dnode returns
DmuWrite ==
        /\ ~wi.done
        /\ wi' = dmu_write_by_dnode(wi)
        /\ UNCHANGED notWrite

(***************************************************************************)
(* dmu_buf_hold_array_by_dnode with read set (dmu.c), by several threads   *)
(* on the buffers of one object.  A buffer is UNCACHED, in READ (a read of *)
(* it is a child of some caller's root zio), in FILL (a writer fills it)   *)
(* or CACHED.                                                              *)
(***************************************************************************)
HoldNBlk == 2
HoldBlocks == 0 .. (HoldNBlk - 1)
Holders == {"h1", "h2"}

\* the block ranges a caller holds
HoldRanges ==
    {r \in HoldBlocks \X (1 .. HoldNBlk) : r[1] + r[2] <= HoldNBlk}

IdleHolder ==
    [pc |-> "idle", blkid |-> 0, nblks |-> 0, i |-> 0, pending |-> {},
     zioerr |-> OK, ret |-> OK, sawfail |-> FALSE, waited |-> FALSE]

\* thread t holds buffer blk
Holds(t, blk) ==
    /\ holder[t].pc # "idle"
    /\ blk >= holder[t].blkid
    /\ blk < holder[t].blkid + holder[t].nblks

\* thread t sleeps in cv_wait(&db->db_changed) of buffer blk
CvWaits(t, blk) ==
    holder[t].pc = "cv_wait" /\ holder[t].blkid + holder[t].i = blk

\* cv_broadcast(&db->db_changed): every sleeper goes back to its loop test;
\* failed tells the sleepers woken by a failed read
HoldBroadcast(blk, failed) ==
    [t \in Holders |->
        IF CvWaits(t, blk)
        THEN [holder[t] EXCEPT !.pc = "loop",
                               !.sawfail = @ \/ failed]
        ELSE holder[t]]

\* rw_enter, zio_root: the call starts on its first block
HoldBegin(t, blkid, nblks) ==
    /\ holder[t].pc = "idle"
    /\ holder' = [holder EXCEPT ![t] = [IdleHolder EXCEPT
                     !.pc = "read", !.blkid = blkid, !.nblks = nblks]]
    /\ UNCHANGED <<notHold, hdb>>

\* dbuf_hold and dbuf_read(db, zio, flags | DB_RF_CANFAIL | DB_RF_NEVERWAIT)
\* of block blkid + i: a read of an uncached buffer is started as a child of
\* the caller's zio; a buffer in READ or FILL is left to the wait loop
HoldRead(t) ==
    LET h == holder[t]
        blk == h.blkid + h.i
        last == h.i + 1 = h.nblks
        miss == hdb[blk].st = "DB_UNCACHED"
    IN  /\ h.pc = "read"
        /\ hdb' = IF miss
                  THEN [hdb EXCEPT ![blk] = [st |-> "DB_READ", rd |-> t]]
                  ELSE hdb
        /\ holder' = [holder EXCEPT ![t] = [h EXCEPT
                         !.pending = IF miss THEN @ \cup {blk} ELSE @,
                         !.i = IF last THEN 0 ELSE h.i + 1,
                         !.pc = IF last THEN "zio_wait" ELSE "read"]]
        /\ UNCHANGED notHold

\* dbuf_read_done: the read of a buffer is over; on an error the buffer is
\* UNCACHED again, and the error goes to the zio the read is a child of
HoldReadDone(blk, err) ==
    LET t == hdb[blk].rd
        woken == HoldBroadcast(blk, err # OK)
    IN  /\ hdb[blk].st = "DB_READ"
        /\ hdb' = [hdb EXCEPT ![blk] =
                      [st |-> IF err = OK THEN "DB_CACHED" ELSE "DB_UNCACHED",
                       rd |-> "none"]]
        /\ holder' = [woken EXCEPT ![t] = [woken[t] EXCEPT
                         !.pending = @ \ {blk},
                         !.zioerr = IF err # OK THEN err ELSE @]]
        /\ UNCHANGED notHold

\* the code after the wait loop of one buffer, for a caller that took a
\* buffer it finds UNCACHED for read in
HoldAfterWait_uncached(st, h) ==
    IF h.i + 1 = h.nblks
    THEN [h EXCEPT !.pc = "done", !.ret = OK]
    ELSE [h EXCEPT !.i = h.i + 1]

\* if (db->db_state == DB_UNCACHED) err = SET_ERROR(EIO); ... return (err)
\* or the next buffer, and return (0) after the last
HoldAfterWait(st, h) ==
    IF st = "DB_UNCACHED"
    THEN [h EXCEPT !.pc = "done", !.ret = EIO]
    ELSE IF h.i + 1 = h.nblks
    THEN [h EXCEPT !.pc = "done", !.ret = OK]
    ELSE [h EXCEPT !.i = h.i + 1]

\* err = zio_wait(zio): every read the caller started is over
HoldZioWait(t) ==
    LET h == holder[t]
    IN  /\ h.pc = "zio_wait"
        /\ h.pending = {}
        /\ holder' = [holder EXCEPT ![t] =
                         IF h.zioerr # OK
                         THEN [h EXCEPT !.pc = "done", !.ret = h.zioerr]
                         ELSE [h EXCEPT !.pc = "loop", !.i = 0]]
        /\ UNCHANGED <<notHold, hdb>>

\* one test of while (db_state == DB_READ || db_state == DB_FILL) cv_wait()
\* under db_mtx, and what follows the loop
HoldLoop(t) ==
    LET h == holder[t]
        st == hdb[h.blkid + h.i].st
    IN  /\ h.pc = "loop"
        /\ holder' = [holder EXCEPT ![t] =
                         IF st \in {"DB_READ", "DB_FILL"}
                         THEN [h EXCEPT !.pc = "cv_wait", !.waited = TRUE]
                         ELSE HoldAfterWait(st, h)]
        /\ UNCHANGED <<notHold, hdb>>

\* the caller is done with the buffers (dmu_buf_rele_array, by the function
\* itself when it returns an error)
HoldRele(t) ==
    /\ holder[t].pc = "done"
    /\ holder' = [holder EXCEPT ![t] = IdleHolder]
    /\ UNCHANGED <<notHold, hdb>>

\* a writer starts to fill an uncached buffer (dmu_buf_will_fill_flags)
HoldFillBegin(blk) ==
    /\ hdb[blk].st = "DB_UNCACHED"
    /\ hdb' = [hdb EXCEPT ![blk].st = "DB_FILL"]
    /\ UNCHANGED <<notHold, holder>>

\* dmu_buf_fill_done
HoldFillDone(blk) ==
    /\ hdb[blk].st = "DB_FILL"
    /\ hdb' = [hdb EXCEPT ![blk].st = "DB_CACHED"]
    /\ holder' = HoldBroadcast(blk, FALSE)
    /\ UNCHANGED notHold

\* a cached buffer that nobody holds is evicted
HoldEvict(blk) ==
    /\ hdb[blk].st = "DB_CACHED"
    /\ \A t \in Holders : ~Holds(t, blk)
    /\ hdb' = [hdb EXCEPT ![blk].st = "DB_UNCACHED"]
    /\ UNCHANGED <<notHold, holder>>

InitHoldIdle ==
    /\ hdb = [blk \in HoldBlocks |-> [st |-> "DB_UNCACHED", rd |-> "none"]]
    /\ holder = [t \in Holders |-> IdleHolder]

(***************************************************************************)
(* dmu_prefetch_wait (dmu.c): the range is prefetched in chunks, each      *)
(* waited for, with a look at the pending signals after every chunk.       *)
(***************************************************************************)
\* dn_datablkshift of the object that is prefetched
PfShift == 1
PfBlkSz == 2 ^ PfShift
\* the indirect blocks a chunk spans ("16 indirects worth" in the code)
PrefetchIndirects == 2
\* chunksize = (bp_span_in_blocks(dn_indblkshift, 1) * 16) << dn_datablkshift
chunksize == (EPB(dn_indblkshift, SPA_BLKPTRSHIFT) * PrefetchIndirects) * PfBlkSz

PfWhichblock(offset) == offset \div PfBlkSz

\* the calls looked at
PrefetchWaitOffsets == {0, 1, PfBlkSz, chunksize}
PrefetchWaitSizes ==
    {0, 1, chunksize - 1, chunksize, chunksize + 1, 2 * chunksize,
     (2 * chunksize) + PfBlkSz}

IdlePrefetchWait ==
    [pc |-> "idle", offset0 |-> 0, size0 |-> 0, offset |-> 0, size |-> 0,
     dpa_pending_io |-> 0, issued |-> {}, read |-> {}, err |-> OK]

\* err = dnode_hold(os, object, FTAG, &dn); if (err != 0) return (err)
PrefetchWaitBegin(offset, size, holderr) ==
    /\ pw.pc = "idle"
    /\ pw' = IF holderr # OK
             THEN [IdlePrefetchWait EXCEPT !.pc = "done", !.offset0 = offset,
                       !.size0 = size, !.offset = offset, !.size = size,
                       !.err = holderr]
             ELSE [IdlePrefetchWait EXCEPT
                       !.pc = IF size > 0 THEN "chunk" ELSE "done",
                       !.offset0 = offset, !.size0 = size,
                       !.offset = offset, !.size = size]
    /\ UNCHANGED notPrefetchWait

\* dmu_prefetch_wait_by_dnode up to its wait: a prefetch of every block of
\* [offset, offset + mylen) is issued
PrefetchWaitIssue ==
    LET mylen == Min(pw.size, chunksize)
        start == PfWhichblock(pw.offset)
        end == PfWhichblock(pw.offset + mylen - 1) + 1
    IN  /\ pw.pc = "chunk"
        /\ pw' = [pw EXCEPT !.pc = "wait",
                            !.dpa_pending_io = end - start,
                            !.issued = start .. (end - 1)]
        /\ UNCHANGED notPrefetchWait

\* a callback that counts two blocks at once while more than one is pending
PrefetchDone_twice(blk) ==
    /\ pw.pc = "wait"
    /\ blk \in pw.issued
    /\ pw' = [pw EXCEPT !.dpa_pending_io = IF @ > 1 THEN @ - 2 ELSE @ - 1,
                        !.issued = @ \ {blk},
                        !.read = @ \cup {blk}]
    /\ UNCHANGED notPrefetchWait

\* dmu_prefetch_done of one block: --dpa->dpa_pending_io under dpa_lock; the
\* callback runs whether or not a read was issued for the block
PrefetchDone(blk) ==
    /\ pw.pc = "wait"
    /\ blk \in pw.issued
    /\ pw' = [pw EXCEPT !.dpa_pending_io = @ - 1,
                        !.issued = @ \ {blk},
                        !.read = @ \cup {blk}]
    /\ UNCHANGED notPrefetchWait

\* a loop that looks at the signals before it counts the chunk
PrefetchWaitNext_sigfirst(p, sig) ==
    LET mylen == Min(p.size, chunksize)
    IN  IF sig THEN [p EXCEPT !.pc = "done", !.err = EINTR]
        ELSE [p EXCEPT !.offset = p.offset + mylen,
                       !.size = p.size - mylen,
                       !.pc = IF p.size - mylen > 0 THEN "chunk" ELSE "done"]

\* offset += mylen; size -= mylen; if (issig()) { err = EINTR; break; }
PrefetchWaitNext(p, sig) ==
    LET mylen == Min(p.size, chunksize)
    IN  [p EXCEPT !.offset = p.offset + mylen,
                  !.size = p.size - mylen,
                  !.err = IF sig THEN EINTR ELSE p.err,
                  !.pc = IF sig \/ p.size - mylen = 0 THEN "done" ELSE "chunk"]

\* the wait of dmu_prefetch_wait_by_dnode is over (dpa_pending_io is 0) and
\* the loop of dmu_prefetch_wait goes on; sig is what issig() returns
PrefetchWaitChunkDone(sig) ==
    /\ pw.pc = "wait"
    /\ pw.dpa_pending_io = 0
    /\ pw' = PrefetchWaitNext(pw, sig)
    /\ UNCHANGED notPrefetchWait

\* dnode_rele and return (err)
PrefetchWaitReturn ==
    /\ pw.pc = "done"
    /\ pw' = IdlePrefetchWait
    /\ UNCHANGED notPrefetchWait

(***************************************************************************)
(* dmu_prefetch_by_dnode (dmu.c): the blocks one call asks dbuf_prefetch   *)
(* for.                                                                    *)
(***************************************************************************)
dmu_prefetch_max == 4
\* the largest dn_maxblkid of the objects looked at, and the size of the
\* block of an object that has one block of no power-of-two size
PfMaxBlk == 9
PfOddBlkSz == 3

\* block pointers per indirect block, as a shift
PfIbps == dn_indblkshift - SPA_BLKPTRSHIFT

\* dbuf_whichblock(dn, level, offset) of an object with dn_datablkshift set
PfWhichblockLevel(level, offset) ==
    offset \div (PfBlkSz * (2 ^ (level * PfIbps)))

\* an end of the first part that takes the whole range
PrefetchEnd_nolimit(end2, start, limit) == end2

\* start2 = end = MIN(end2, start + limit)
PrefetchEnd(end2, start, limit) == Min(end2, start + limit)

\* do { level2++; start2 = P2ROUNDUP(start2, 1 << ibps) >> ibps;
\*      end2 = P2ROUNDUP(end2, 1 << ibps) >> ibps;
\* } while (end2 - start2 > limit);
RECURSIVE PrefetchLevel2(_, _, _, _)
PrefetchLevel2(level2, start2, end2, limit) ==
    LET l == level2 + 1
        s == P2ROUNDUP(start2, 2 ^ PfIbps) \div (2 ^ PfIbps)
        e == P2ROUNDUP(end2, 2 ^ PfIbps) \div (2 ^ PfIbps)
    IN  IF e - s > limit THEN PrefetchLevel2(l, s, e, limit)
        ELSE [level2 |-> l, start2 |-> s, end2 |-> e]

NoPrefetch ==
    [level |-> 0, start |-> 0, end |-> 0, level2 |-> 0, start2 |-> 0,
     end2 |-> 0]

\* the two runs of dbuf_prefetch calls of dmu_prefetch_by_dnode:
\* [start, end) at level and [start2, end2) at level2
dmu_prefetch_by_dnode(dn, level, offset, len0) ==
    IF dn.dn_datablkshift # 0
    THEN LET size == (dn.dn_maxblkid + 1) * PfBlkSz
             len == IF offset + len0 > size THEN size - offset ELSE len0
             start == PfWhichblockLevel(level, offset)
             end2 == PfWhichblockLevel(level, offset + len - 1) + 1
             bsz == IF level = 0 THEN PfBlkSz ELSE 2 ^ dn_indblkshift
             limit == P2ROUNDUP(dmu_prefetch_max, bsz) \div bsz
             end == PrefetchEnd(end2, start, limit)
             limit2 == P2ROUNDUP(dmu_prefetch_max, 2 ^ dn_indblkshift)
                          \div (2 ^ dn_indblkshift)
             l2 == PrefetchLevel2(level, end, end2, limit2)
         IN  IF offset >= size THEN [NoPrefetch EXCEPT !.level = level]
             ELSE [level |-> level, start |-> start, end |-> end,
                   level2 |-> l2.level2, start2 |-> l2.start2,
                   end2 |-> l2.end2]
    ELSE [level |-> level, start |-> 0,
          end |-> IF level = 0 /\ offset < dn.dn_datablksz THEN 1 ELSE 0,
          level2 |-> level, start2 |-> 0, end2 |-> 0]

\* the objects: several blocks of PfBlkSz bytes, or one block
PrefetchDnodes ==
    {[dn_datablkshift |-> PfShift, dn_maxblkid |-> m,
      dn_datablksz |-> PfBlkSz] : m \in 0 .. PfMaxBlk}
        \cup {[dn_datablkshift |-> 0, dn_maxblkid |-> 0,
               dn_datablksz |-> PfOddBlkSz]}

PrefetchObjSize(dn) ==
    IF dn.dn_datablkshift # 0 THEN (dn.dn_maxblkid + 1) * PfBlkSz
    ELSE dn.dn_datablksz

\* the calls looked at: every offset up to one past the end of the object,
\* every length up to one past its size
PrefetchInputs ==
    {[dn |-> d, level |-> l, offset |-> o, len |-> n] :
        d \in PrefetchDnodes, l \in 0 .. 1,
        o \in 0 .. ((PfMaxBlk + 1) * PfBlkSz) + 1,
        n \in 1 .. ((PfMaxBlk + 1) * PfBlkSz) + 1}

IdlePrefetch ==
    [pc |-> "idle",
     in |-> [dn |-> [dn_datablkshift |-> 0, dn_maxblkid |-> 0,
                     dn_datablksz |-> PfOddBlkSz],
             level |-> 0, offset |-> 0, len |-> 1],
     out |-> NoPrefetch]

\* a call of dmu_prefetch_by_dnode
DmuPrefetch ==
    /\ pf.pc = "call"
    /\ pf' = [pf EXCEPT !.pc = "done",
                        !.out = dmu_prefetch_by_dnode(pf.in.dn, pf.in.level,
                                    pf.in.offset, pf.in.len)]
    /\ UNCHANGED notPrefetch

(***************************************************************************)
(* dmu_brt_clone (dmu.c) on a destination range of WNBlk buffers of BlkSz  *)
(* bytes, with block pointers of any size.                                 *)
(***************************************************************************)
\* the group of the cloning transaction and an older group
CloneTxg == MaxTxg - 1
CloneOldTxg == CloneTxg - 1

\* the block pointers handed in: the pointer, its BP_GET_LSIZE and
\* BP_IS_EMBEDDED
CloneBps ==
    {[bp |-> HoleBP, lsize |-> BlkSz, embedded |-> FALSE],
     [bp |-> HoleBP, lsize |-> 2 * BlkSz, embedded |-> FALSE],
     [bp |-> [HoleBP EXCEPT !.lbirth = CloneOldTxg], lsize |-> BlkSz,
      embedded |-> FALSE],
     [bp |-> WrittenBP(CloneOldTxg, Zeros), lsize |-> BlkSz,
      embedded |-> FALSE],
     [bp |-> WrittenBP(CloneOldTxg, Zeros), lsize |-> 2 * BlkSz,
      embedded |-> FALSE],
     [bp |-> WrittenBP(CloneOldTxg, Zeros), lsize |-> BlkSz,
      embedded |-> TRUE]}

\* the destination buffers before the call: clean, dirty in an older group,
\* or dirty in the group of the transaction
CloneCleanBuf ==
    [st |-> "DB_CACHED", data |-> Zeros, bp |-> HoleBP, dirty |-> <<>>]
CloneBufs ==
    {CloneCleanBuf, dbuf_dirty(CloneCleanBuf, CloneOldTxg),
     dbuf_dirty(CloneCleanBuf, CloneTxg)}

IdleClone ==
    [pc |-> "idle", bps |-> [i \in WBlocks |-> CHOOSE x \in CloneBps : TRUE],
     before |-> [i \in WBlocks |-> CloneCleanBuf],
     bufs |-> [i \in WBlocks |-> CloneCleanBuf],
     brt_pending |-> <<>>, holds |-> 0, error |-> OK, i |-> 0]

\* a check that looks at the first block pointer only
CloneSizeMismatch_first(bps, db_size) ==
    ~BP_IS_HOLE(bps[0].bp) /\ bps[0].lsize # db_size

\* the first loop of dmu_brt_clone:
\* if (!BP_IS_HOLE(bp) && BP_GET_LSIZE(bp) != dbuf->db_size) for some i
CloneSizeMismatch(bps, db_size) ==
    \E i \in DOMAIN bps : ~BP_IS_HOLE(bps[i].bp) /\ bps[i].lsize # db_size

\* VERIFY0(dmu_buf_hold_array(os, object, offset, length, FALSE, ...))
CloneHold ==
    /\ bc.pc = "call"
    /\ bc' = [bc EXCEPT !.pc = "check", !.holds = WNBlk]
    /\ UNCHANGED notClone

\* the size check of every block pointer, before any buffer is touched
CloneCheck ==
    /\ bc.pc = "check"
    /\ bc' = IF CloneSizeMismatch(bc.bps, BlkSz)
             THEN [bc EXCEPT !.pc = "out", !.error = EXDEV]
             ELSE [bc EXCEPT !.pc = "clone", !.i = 0]
    /\ UNCHANGED notClone

\* the second loop of dmu_brt_clone for buffer dbp[i]
CloneStep ==
    LET x == bc.bps[bc.i]
        d == dmu_brt_clone_buf(bc.bufs[bc.i], x.bp, CloneTxg)
    IN  /\ bc.pc = "clone"
        /\ bc' = [bc EXCEPT
                    !.bufs[bc.i] = d,
                    !.brt_pending =
                        IF ~BP_IS_HOLE(x.bp) /\ ~x.embedded
                        THEN Append(@, bc.i) ELSE @,
                    !.i = bc.i + 1,
                    !.pc = IF bc.i + 1 = WNBlk THEN "out" ELSE "clone"]
        /\ UNCHANGED notClone

\* out: dmu_buf_rele_array(dbp, numbufs, FTAG); return (error)
CloneOut ==
    /\ bc.pc = "out"
    /\ bc' = [bc EXCEPT !.pc = "done", !.holds = 0]
    /\ UNCHANGED notClone

InitPrefetchIdle ==
    /\ pw = IdlePrefetchWait
    /\ pf = IdlePrefetch

(***************************************************************************)
(* dmu_read_l0_bps (dmu.c) on a range of WNBlk buffers.  The last synced   *)
(* group is CloneOldTxg, CloneTxg is syncing and MaxTxg is open.           *)
(***************************************************************************)
ReadBpsSynced == WrittenBP(CloneOldTxg, Zeros)
ReadBpsUnsynced == WrittenBP(CloneTxg, Zeros)
ReadBpsCleanSynced == [CloneCleanBuf EXCEPT !.bp = ReadBpsSynced]
ReadBpsCleanUnsynced == [CloneCleanBuf EXCEPT !.bp = ReadBpsUnsynced]

\* the buffers of the range: clean with a block pointer born in a synced
\* group, in the syncing group, or with none; written in the open group;
\* cloned in the open group, alone, over a write of the syncing group, or
\* over a block pointer born in the syncing group; written over a clone
ReadBpsBufs ==
    {ReadBpsCleanSynced, ReadBpsCleanUnsynced, CloneCleanBuf,
     dbuf_dirty(ReadBpsCleanSynced, MaxTxg),
     dmu_brt_clone_buf(ReadBpsCleanSynced, ReadBpsSynced, MaxTxg),
     dmu_brt_clone_buf(dbuf_dirty(ReadBpsCleanSynced, CloneTxg),
                       ReadBpsSynced, MaxTxg),
     dmu_brt_clone_buf(ReadBpsCleanUnsynced, ReadBpsSynced, MaxTxg),
     dbuf_dirty(dmu_brt_clone_buf(ReadBpsCleanSynced, ReadBpsSynced,
                                  CloneTxg), MaxTxg)}

\* the loop of dmu_read_l0_bps from buffer i on: the first error ends it
\* (goto out), *nbpsp is set after the last buffer only
RECURSIVE dmu_read_l0_bps(_, _, _, _, _)
dmu_read_l0_bps(dbp, i, bps, freeze, synced) ==
    IF i = WNBlk THEN [error |-> OK, nbps |-> WNBlk, bps |-> bps]
    ELSE LET r == dmu_read_l0_bp_buf(dbp[i], freeze, synced)
         IN  IF r.err # OK
             THEN [error |-> r.err, nbps |-> -1, bps |-> bps]
             ELSE dmu_read_l0_bps(dbp, i + 1, [bps EXCEPT ![i] = r.bp],
                                  freeze, synced)

IdleReadBps ==
    [pc |-> "idle", bufs |-> [i \in WBlocks |-> CloneCleanBuf],
     freeze |-> UINT64_MAX,
     out |-> [error |-> OK, nbps |-> -1, bps |-> [i \in WBlocks |-> HoleBP]]]

\* a call of dmu_read_l0_bps; nbps is -1 as long as *nbpsp is not set
DmuReadL0Bps ==
    /\ rb.pc = "call"
    /\ rb' = [rb EXCEPT !.pc = "done",
                        !.out = dmu_read_l0_bps(rb.bufs, 0,
                                    [i \in WBlocks |-> HoleBP], rb.freeze,
                                    CloneOldTxg)]
    /\ UNCHANGED notReadBps

InitCloneIdle == bc = IdleClone /\ rb = IdleReadBps

(***************************************************************************)
(* dmu_offset_next (dmu.c): hole and data offsets are reported for a clean *)
(* object only.  Whether the object is dirty is read anew at every pass,   *)
(* since other threads dirty it and the pool syncs it.                     *)
(***************************************************************************)
EBUSY == "EBUSY"
ESRCH == "ESRCH"
TXG_CONCURRENT_STATES == 3
\* the last group a call may wait for
OnMaxTxg == 8

notHoldArray == <<dataVars, wi, hdb, holder, pw, pf, bc, rb, on, bh, sp>>
notBonus == <<dataVars, wi, hdb, holder, pw, pf, bc, rb, on, ha, sp>>
notFacade == <<dataVars, wi, hdb, holder, pw, pf, bc, rb, on, ha, bh>>
notOffsetNext == <<dataVars, wi, hdb, holder, pw, pf, bc, rb, ha, bh, sp>>

\* dirty is what dnode_is_dirty returned in the pass the call is in,
\* reported tells whether dnode_next_offset was called
IdleOffsetNext ==
    [pc |-> "idle", sync |-> FALSE, holds |-> 0, lock |-> "none",
     txg |-> 0, maxtxg |-> 0, restarts |-> 0, last_synced |-> 0,
     dirty |-> FALSE, reported |-> FALSE, err |-> OK]

\* a call enters; sync is zfs_dmu_offset_next_sync
OffsetNextCall(sync) ==
    /\ on.pc = "idle"
    /\ on.last_synced + TXG_CONCURRENT_STATES <= OnMaxTxg
    /\ on' = [IdleOffsetNext EXCEPT !.pc = "restart", !.sync = sync,
                                    !.last_synced = on.last_synced]
    /\ UNCHANGED notOffsetNext

\* restart: err = dnode_hold(os, object, FTAG, &dn); if (err) return (err);
\* rw_enter(&dn->dn_struct_rwlock, RW_READER)
OffsetNextHold(holderr) ==
    /\ on.pc = "restart"
    /\ on' = IF holderr # OK
             THEN [on EXCEPT !.pc = "done", !.err = holderr]
             ELSE [on EXCEPT !.pc = "locked", !.holds = 1, !.lock = "reader"]
    /\ UNCHANGED notOffsetNext

\* a dirty branch that never gives up
OffsetNextDirty_nolimit(o) ==
    IF o.sync
    THEN LET txg == IF o.maxtxg = 0 THEN o.last_synced ELSE o.txg
             maxtxg == IF o.maxtxg = 0
                       THEN o.last_synced + TXG_CONCURRENT_STATES
                       ELSE o.maxtxg
         IN  [o EXCEPT !.lock = "none", !.holds = 0, !.maxtxg = maxtxg,
                       !.txg = txg + 1, !.pc = "wait"]
    ELSE [o EXCEPT !.err = EBUSY, !.lock = "none", !.holds = 0,
                   !.pc = "done"]

\* the branch of a dirty dnode: without zfs_dmu_offset_next_sync EBUSY; with
\* it the lock and the hold are dropped, the first pass sets maxtxg, a later
\* pass gives up at txg >= maxtxg, and txg_wait_synced(++txg) is called
OffsetNextDirty(o) ==
    IF o.sync
    THEN LET txg == IF o.maxtxg = 0 THEN o.last_synced ELSE o.txg
             maxtxg == IF o.maxtxg = 0
                       THEN o.last_synced + TXG_CONCURRENT_STATES
                       ELSE o.maxtxg
         IN  IF o.maxtxg # 0 /\ o.txg >= o.maxtxg
             THEN [o EXCEPT !.lock = "none", !.holds = 0, !.err = EBUSY,
                            !.pc = "done"]
             ELSE [o EXCEPT !.lock = "none", !.holds = 0, !.maxtxg = maxtxg,
                            !.txg = txg + 1, !.pc = "wait"]
    ELSE [o EXCEPT !.err = EBUSY, !.lock = "none", !.holds = 0,
                   !.pc = "done"]

\* if (dnode_is_dirty(dn)) ... else err = dnode_next_offset(...); on the
\* paths that do not restart rw_exit and dnode_rele follow
OffsetNextCheck(dirty, nexterr) ==
    /\ on.pc = "locked"
    /\ on' = IF dirty
             THEN OffsetNextDirty([on EXCEPT !.dirty = TRUE])
             ELSE [on EXCEPT !.dirty = FALSE, !.reported = TRUE,
                             !.err = nexterr, !.lock = "none", !.holds = 0,
                             !.pc = "done"]
    /\ UNCHANGED notOffsetNext

\* the pool syncs the next group for the caller of txg_wait_synced
OffsetNextSynced ==
    /\ on.pc = "wait"
    /\ on.last_synced < on.txg
    /\ on' = [on EXCEPT !.last_synced = @ + 1]
    /\ UNCHANGED notOffsetNext

\* txg_wait_synced(dmu_objset_pool(os), txg) returns; goto restart
OffsetNextWaitDone ==
    /\ on.pc = "wait"
    /\ on.last_synced >= on.txg
    /\ on' = [on EXCEPT !.pc = "restart", !.restarts = @ + 1,
                        !.dirty = FALSE]
    /\ UNCHANGED notOffsetNext

\* the caller has the result
OffsetNextReturn ==
    /\ on.pc = "done"
    /\ on' = [IdleOffsetNext EXCEPT !.last_synced = on.last_synced]
    /\ UNCHANGED notOffsetNext

\* no call of the functions modelled after the others
(***************************************************************************)
(* One call of dmu_buf_hold_array_by_dnode (dmu.c) followed through the    *)
(* holds it takes and releases: the structural lock, the array dbp[] of    *)
(* the buffers held so far, the holds with the caller's tag on every       *)
(* buffer, and the four error returns.                                     *)
(***************************************************************************)
NullBuf == 0 - 1
HaSize == HoldNBlk * BlkSz

IdleHoldArray ==
    [pc |-> "idle", offset |-> 0, length |-> 0, read |-> FALSE,
     shift |-> TRUE, blkid |-> 0, nblks |-> 0, i |-> 0, dbp |-> <<>>,
     lock |-> 0, holds |-> [blk \in HoldBlocks |-> 0], err |-> OK,
     why |-> "none", numbufs |-> 0, dbpp |-> <<>>, set |-> FALSE]

\* dmu_buf_rele_array that forgets the holds
dmu_buf_rele_array_leak(holds, dbp, numbufs) == holds

\* dmu_buf_rele_array(dbp, numbufs, tag): dbuf_rele of every entry of the
\* array that is not NULL; gives the holds left on the buffers
dmu_buf_rele_array(holds, dbp, numbufs) ==
    [blk \in HoldBlocks |->
        holds[blk] - Cardinality({k \in 1 .. numbufs : dbp[k] = blk})]

\* an error return after the array was allocated: the holds taken so far
\* are released and the array is freed
HoldArrayFail(h, err, why) ==
    [h EXCEPT !.pc = "ret", !.err = err, !.why = why, !.lock = 0,
              !.holds = dmu_buf_rele_array(h.holds, h.dbp, h.nblks),
              !.dbp = <<>>]

\* *numbufsp = nblks; *dbpp = dbp; return (0)
HoldArrayDone(h) ==
    [h EXCEPT !.pc = "ret", !.err = OK, !.numbufs = h.nblks,
              !.dbpp = h.dbp, !.set = TRUE]

\* what follows the loop of dbuf_hold: rw_exit, and zio_wait for a read
HoldArrayHeld(h) ==
    IF h.read
    THEN [h EXCEPT !.pc = "zio_wait", !.lock = 0]
    ELSE HoldArrayDone([h EXCEPT !.lock = 0])

\* rw_enter(RW_READER), nblks, the check of a single-block object (shift
\* unset, dn_datablksz = BlkSz, its only block is block 0), kmem_zalloc of
\* the array
HoldArrayCall(offset, length, read, shift) ==
    LET h == [IdleHoldArray EXCEPT !.offset = offset, !.length = length,
                                   !.read = read, !.shift = shift,
                                   !.holds = ha.holds]
        nblks == IF shift THEN HoldArrayNblks(offset, length) ELSE 1
        held == [h EXCEPT !.pc = "hold", !.lock = 1, !.nblks = nblks,
                          !.blkid = IF shift THEN dbuf_whichblock(offset)
                                    ELSE 0,
                          !.dbp = [k \in 1 .. nblks |-> NullBuf]]
    IN  /\ ha.pc = "idle"
        /\ ha' = IF ~shift /\ offset + length > BlkSz
                 THEN [h EXCEPT !.pc = "ret", !.err = EIO,
                                !.why = "past_end"]
                 ELSE IF nblks = 0 THEN HoldArrayHeld(held) ELSE held
        /\ UNCHANGED notHoldArray

\* one turn of the loop: db = dbuf_hold(dn, blkid + i, tag), NULL when the
\* hold failed
HoldArrayHold(failed) ==
    LET h == ha
        blk == h.blkid + h.i
        got == [h EXCEPT !.holds[blk] = @ + 1, !.dbp[h.i + 1] = blk,
                         !.i = @ + 1]
    IN  /\ h.pc = "hold"
        /\ ha' = IF failed THEN HoldArrayFail(h, EIO, "dbuf_hold")
                 ELSE IF h.i + 1 = h.nblks THEN HoldArrayHeld(got)
                 ELSE got
        /\ UNCHANGED notHoldArray

\* err = zio_wait(zio)
HoldArrayZioWait(err) ==
    /\ ha.pc = "zio_wait"
    /\ ha' = IF err # OK THEN HoldArrayFail(ha, err, "zio_wait")
             ELSE IF ha.nblks = 0 THEN HoldArrayDone(ha)
             ELSE [ha EXCEPT !.pc = "wait", !.i = 0]
    /\ UNCHANGED notHoldArray

\* the wait for buffer i is over and the buffer is found in state st
HoldArrayWait(st) ==
    /\ ha.pc = "wait"
    /\ ha' = IF st = "DB_UNCACHED" THEN HoldArrayFail(ha, EIO, "uncached")
             ELSE IF ha.i + 1 = ha.nblks THEN HoldArrayDone(ha)
             ELSE [ha EXCEPT !.i = @ + 1]
    /\ UNCHANGED notHoldArray

\* the caller is done: after a success it calls dmu_buf_rele_array on the
\* array it was given
HoldArrayRele ==
    /\ ha.pc = "ret"
    /\ ha' = [IdleHoldArray EXCEPT !.holds =
                 IF ha.err = OK
                 THEN dmu_buf_rele_array(ha.holds, ha.dbpp, ha.numbufs)
                 ELSE ha.holds]
    /\ UNCHANGED notHoldArray

(***************************************************************************)
(* dmu_bonus_hold_by_dnode (dmu.c) called by several threads on one dnode: *)
(* dn_struct_rwlock, dn_bonus, the holds of the bonus buffer, the hold of  *)
(* the dnode tagged with the buffer, and dn_dbufs_count.                   *)
(***************************************************************************)
BonusThreads == {"b1", "b2"}
MaxBonusCalls == 3

IdleBonusThread ==
    [pc |-> "idle", ret |-> OK, dbp |-> FALSE, sawnull |-> FALSE,
     created |-> FALSE, upgraded |-> FALSE]

IdleBonus ==
    [readers |-> {}, writer |-> "none", dn_bonus |-> FALSE,
     db_pending_evict |-> FALSE, db_holds |-> 0, dn_holds |-> 0,
     dn_dbufs_count |-> 0, creates |-> 0, destroys |-> 0, ncalls |-> 0,
     th |-> [t \in BonusThreads |-> IdleBonusThread]]

\* rw_enter(&dn->dn_struct_rwlock, RW_READER); if (dn->dn_bonus == NULL)
BonusEnter(t) ==
    /\ bh.th[t].pc = "idle"
    /\ bh.ncalls < MaxBonusCalls
    /\ bh.writer = "none"
    /\ bh' = [bh EXCEPT
                 !.readers = @ \cup {t},
                 !.ncalls = @ + 1,
                 !.th[t] = [IdleBonusThread EXCEPT
                     !.pc = IF bh.dn_bonus THEN "add" ELSE "upgrade",
                     !.sawnull = ~bh.dn_bonus]]
    /\ UNCHANGED notBonus

\* if (!rw_tryupgrade(...)) rw_exit(...): the upgrade of libzpool always
\* fails (kernel.c), the one of a kernel can succeed for the only reader
BonusUpgrade(t, ok) ==
    /\ bh.th[t].pc = "upgrade"
    /\ ok => bh.readers = {t}
    /\ bh' = IF ok
             THEN [bh EXCEPT !.readers = {}, !.writer = t,
                             !.th[t].pc = "recheck",
                             !.th[t].upgraded = TRUE]
             ELSE [bh EXCEPT !.readers = @ \ {t},
                             !.th[t].pc = "rw_enter"]
    /\ UNCHANGED notBonus

\* rw_enter(&dn->dn_struct_rwlock, RW_WRITER)
BonusWriter(t) ==
    /\ bh.th[t].pc = "rw_enter"
    /\ bh.writer = "none"
    /\ bh.readers = {}
    /\ bh' = [bh EXCEPT !.writer = t, !.th[t].pc = "recheck"]
    /\ UNCHANGED notBonus

\* dbuf_create_bonus(dn) without the second test of dn_bonus
BonusCreate_norecheck(t) ==
    /\ bh.th[t].pc = "recheck"
    /\ bh' = [bh EXCEPT !.dn_bonus = TRUE, !.creates = @ + 1,
                        !.th[t].created = TRUE, !.th[t].pc = "add"]
    /\ UNCHANGED notBonus

\* if (dn->dn_bonus == NULL) dbuf_create_bonus(dn);
BonusCreate(t) ==
    /\ bh.th[t].pc = "recheck"
    /\ bh' = IF bh.dn_bonus
             THEN [bh EXCEPT !.th[t].pc = "add"]
             ELSE [bh EXCEPT !.dn_bonus = TRUE, !.creates = @ + 1,
                             !.th[t].created = TRUE, !.th[t].pc = "add"]
    /\ UNCHANGED notBonus

\* if (zfs_refcount_add(&db->db_holds, tag) == 1)
BonusAdd(t) ==
    /\ bh.th[t].pc = "add"
    /\ bh' = [bh EXCEPT !.db_holds = @ + 1,
                        !.th[t].pc = IF bh.db_holds + 1 = 1 THEN "add_ref"
                                     ELSE "rw_exit"]
    /\ UNCHANGED notBonus

\* VERIFY(dnode_add_ref(dn, db)); atomic_inc_32(&dn->dn_dbufs_count);
BonusAddRef(t) ==
    /\ bh.th[t].pc = "add_ref"
    /\ bh' = [bh EXCEPT !.dn_holds = @ + 1, !.dn_dbufs_count = @ + 1,
                        !.th[t].pc = "rw_exit"]
    /\ UNCHANGED notBonus

\* rw_exit(&dn->dn_struct_rwlock)
BonusExit(t) ==
    /\ bh.th[t].pc = "rw_exit"
    /\ bh' = [bh EXCEPT !.readers = @ \ {t},
                        !.writer = IF @ = t THEN "none" ELSE @,
                        !.th[t].pc = "dbuf_read"]
    /\ UNCHANGED notBonus

\* error = dbuf_read(db, NULL, flags | DB_RF_CANFAIL), and the return of 0
BonusRead(t, error) ==
    /\ bh.th[t].pc = "dbuf_read"
    /\ bh' = IF error # OK
             THEN [bh EXCEPT !.th[t].pc = "evict", !.th[t].ret = error]
             ELSE [bh EXCEPT !.th[t].pc = "held", !.th[t].ret = OK,
                             !.th[t].dbp = TRUE]
    /\ UNCHANGED notBonus

\* dnode_evict_bonus(dn): under the lock held as writer, a bonus buffer
\* without holds is destroyed, one with holds is marked for eviction
BonusEvict(t) ==
    /\ bh.th[t].pc \in {"evict", "evict_last"}
    /\ bh.writer = "none"
    /\ bh.readers = {}
    /\ bh' = [bh EXCEPT
                 !.dn_bonus = IF bh.db_holds = 0 THEN FALSE ELSE @,
                 !.destroys = IF bh.dn_bonus /\ bh.db_holds = 0
                              THEN @ + 1 ELSE @,
                 !.db_pending_evict = IF bh.dn_bonus /\ bh.db_holds > 0
                                      THEN TRUE
                                      ELSE IF bh.db_holds = 0 THEN FALSE
                                      ELSE @,
                 !.th[t].pc = IF bh.th[t].pc = "evict" THEN "dbuf_rele"
                              ELSE "idle"]
    /\ UNCHANGED notBonus

\* dbuf_rele(db, tag), by the function after a failed read and by a caller
\* that is done with the buffer: the last hold gives back the count and the
\* hold of the dnode, and evicts a buffer marked for eviction
BonusRele(t) ==
    LET last == bh.db_holds = 1
    IN  /\ bh.th[t].pc \in {"dbuf_rele", "held"}
        /\ bh' = [bh EXCEPT
                     !.db_holds = @ - 1,
                     !.dn_holds = IF last THEN @ - 1 ELSE @,
                     !.dn_dbufs_count = IF last THEN @ - 1 ELSE @,
                     !.th[t].dbp = FALSE,
                     !.th[t].pc = IF last /\ bh.db_pending_evict
                                  THEN "evict_last" ELSE "idle"]
        /\ UNCHANGED notBonus

(***************************************************************************)
(* The facade functions that start with dnode_hold(os, object, FTAG, &dn)  *)
(* (dmu.c), on an objset where an object id can be unallocated.  The dnode *)
(* of an object has a spill block or not, data or not, and holds.  After a *)
(* failed dnode_hold the local dn is not initialized: what it points to is *)
(* the caller's choice of garbage.                                         *)
(***************************************************************************)
FacadeObjects == 1 .. 2
\* a value of an uninitialized dn that is the address of no dnode
WildDnode == 0
CheckedFacadeOps ==
    {"dmu_read", "dmu_free_range", "dmu_free_long_range", "dmu_offset_next"}

NoFacadeCall ==
    [op |-> "none", object |-> 0, holderr |-> OK, ret |-> OK,
     locked |-> {}, released |-> {}, removed |-> {}, crashed |-> FALSE]

IdleFacade ==
    [objs |-> [o \in FacadeObjects |->
                  [alloc |-> FALSE, spill |-> FALSE, data |-> FALSE,
                   holds |-> 0]],
     call |-> NoFacadeCall]

\* dnode_hold(os, object, FTAG, &dn): ENOENT for an object that is not
\* allocated
dnode_hold_err(objs, object) == IF objs[object].alloc THEN OK ELSE ENOENT

\* dmu_rm_spill: the error of dnode_hold is kept for the return, and
\* dbuf_rm_spill, rw_enter, dnode_rm_spill, rw_exit and dnode_rele are run
\* on dn whatever it is; a dn that is no dnode, or a release of a dnode
\* that has no hold, ends the program
dmu_rm_spill(objs, object, garbage) ==
    LET error == dnode_hold_err(objs, object)
        dn == IF error = OK THEN object ELSE garbage
        held == IF error = OK
                THEN [objs EXCEPT ![object].holds = @ + 1]
                ELSE objs
        rec == [NoFacadeCall EXCEPT !.op = "dmu_rm_spill",
                   !.object = object, !.holderr = error, !.ret = error]
        done == [rec EXCEPT !.locked = {dn},
                   !.removed = IF held[dn].spill THEN {dn} ELSE {}]
    IN  IF dn = WildDnode \/ ~held[dn].alloc
        THEN [objs |-> objs, call |-> [rec EXCEPT !.crashed = TRUE]]
        ELSE IF held[dn].holds = 0
        THEN [objs |-> [held EXCEPT ![dn].spill = FALSE],
              call |-> [done EXCEPT !.crashed = TRUE]]
        ELSE [objs |-> [held EXCEPT ![dn].spill = FALSE,
                                    ![dn].holds = @ - 1],
              call |-> [done EXCEPT !.released = {dn}]]

\* int err = dnode_hold(os, object, FTAG, &dn); if (err) return (err);
\* the body, taken to succeed (dnode_free_range for the two functions that
\* free, under the lock for dmu_offset_next); dnode_rele(dn, FTAG)
dmu_checked_op(objs, op, object) ==
    LET err == dnode_hold_err(objs, object)
        rec == [NoFacadeCall EXCEPT !.op = op, !.object = object,
                                    !.holderr = err, !.ret = err]
    IN  IF err # OK
        THEN [objs |-> objs, call |-> rec]
        ELSE [objs |-> IF op \in {"dmu_free_range", "dmu_free_long_range"}
                       THEN [objs EXCEPT ![object].data = FALSE]
                       ELSE objs,
              call |-> [rec EXCEPT !.released = {object},
                           !.locked = IF op = "dmu_offset_next"
                                      THEN {object} ELSE {}]]

\* a call of dmu_rm_spill
DmuRmSpill(object, garbage) ==
    /\ ~sp.call.crashed
    /\ sp' = dmu_rm_spill(sp.objs, object, garbage)
    /\ UNCHANGED notFacade

\* a call of dmu_read, dmu_free_range, dmu_free_long_range or
\* dmu_offset_next
DmuCheckedOp(op, object) ==
    /\ ~sp.call.crashed
    /\ sp' = dmu_checked_op(sp.objs, op, object)
    /\ UNCHANGED notFacade

InitMoreIdle ==
    /\ on = IdleOffsetNext
    /\ ha = IdleHoldArray
    /\ bh = IdleBonus
    /\ sp = IdleFacade

\* no call of the functions that are looked at on their own
InitFuncsIdle ==
    /\ wi = IdleWrite
    /\ InitHoldIdle
    /\ InitMoreIdle
    /\ InitPrefetchIdle
    /\ InitCloneIdle

(***************************************************************************)
(* The data path: writers, readers, the intent log and the pipeline.       *)
(***************************************************************************)
InitPipe ==
    /\ txg_state = [t \in Txgs |-> IF t = 1 THEN "OPEN" ELSE "FUTURE"]
    /\ tc_count = [t \in Txgs |-> 0]

InitDbufs ==
    /\ db_state = [b \in Blocks |-> "DB_UNCACHED"]
    /\ db_data = [b \in Blocks |-> Garbage]
    /\ db_blkptr = [b \in Blocks |-> HoleBP]
    /\ db_dirty_records = [b \in Blocks |-> <<>>]
    /\ wr = [w \in Writers |-> IdleWriter]
    /\ call = NoCall
    /\ nops = 0
    /\ zios = {}
    /\ brt_pending = {}
    /\ logical = [b \in Blocks |-> [txg |-> 0, data |-> Zeros]]
    /\ db_changed = [b \in Blocks |-> {}]

\* a thread that is in no vnode op
IdleVop == [pc |-> "idle"]

InitVop ==
    /\ vop = [t \in VopThreads |-> IdleVop]
    /\ z_lock = "none"

Init ==
    /\ InitPipe
    /\ spa_freeze_txg = UINT64_MAX
    /\ InitDbufs
    /\ InitVop
    /\ pol = IdlePolicy
    /\ InitFuncsIdle
    /\ InitFreeIdle

Zils == {"z1"}

Next ==
    \/ TxgQuiesce
    \/ TxgStartSync
    \/ TxgSyncDone
    \/ \E b \in Blocks : DbufSyncWait(b)
    \/ \E b \in Blocks : DbufSyncLeaf(b)
    \/ \E b \in Blocks : DbufEvict(b)
    \/ \E w \in Writers, r \in Ranges, v \in 1 .. MaxVal :
          DmuWriteBegin(w, r[1], r[2], v)
    \/ \E w \in Writers : DmuWriteWill(w)
    \/ \E w \in Writers : DmuWriteCopy(w)
    \/ \E w \in Writers : DmuTxCommit(w)
    \/ \E w \in Writers, r \in AlignedRanges, src \in Blocks :
          DmuCloneBegin(w, r[1], r[2], src)
    \/ \E w \in Writers : DmuBrtClone(w)
    \/ \E r \in Ranges, ioerr \in BOOLEAN : DmuRead(r[1], r[2], ioerr)
    \/ \E z \in Zils, b \in Blocks, t \in Txgs, zp_nop \in PolicyNopwrites,
          freed \in BOOLEAN, fault \in Faults :
          DmuSync(z, b, t, zp_nop, freed, fault)
    \/ \E io \in zios, err \in {OK, EIO} : DmuSyncDone(io, err)
    \/ \E io \in zios, err \in {OK, EIO} : DmuSyncLateArrivalDone(io, err)

Spec == Init /\ [][Next]_vars

(***************************************************************************)
(* Read-after-write and copy-on-write isolation.                            *)
(***************************************************************************)
\* the bytes the completed writes and clones stored in [offset, offset + size)
Stored(offset, size) ==
    [n \in 1 .. size |->
        logical[(offset + n - 1) \div BlkSz].data[(offset + n - 1) % BlkSz]]

\* no write of the range is under way and the group of the last write of
\* each of its blocks is DONE
RangeSynced(offset, size) ==
    \A b \in RangeBlocks(offset, size) :
        /\ ~WriteLocked(b)
        /\ logical[b].txg = 0 \/ txg_state[logical[b].txg] = "DONE"

\* C1: once a write of a range has committed and its transaction group is
\* DONE, dmu_read of the range returns exactly the bytes written, as long as
\* no later write touches the range
ReadAfterWrite ==
    \A r \in Ranges :
        RangeSynced(r[1], r[2]) => dmu_read_impl(r[1], r[2]) = Stored(r[1], r[2])

\* a synced write whose data has left the cache: the read goes to the block
\* pointer the sync left
ReadAfterWriteWitness ==
    \E b \in Blocks :
        /\ RangeSynced(b * BlkSz, BlkSz)
        /\ logical[b].txg # 0
        /\ logical[b].data # Zeros
        /\ db_state[b] = "DB_UNCACHED"

\* the data the dirty record of txg t of block b will write
DirtyData(b, t) ==
    DataOf(Dbuf(b), db_dirty_records[b][dbuf_find_dirty_eq(db_dirty_records[b], t)])

\* a step of a thread whose transaction is not in txg t leaves the data of
\* the dirty record of t alone
OlderDataKept ==
    \A b \in Blocks, t \in Txgs :
        (/\ HasDirty(b, t)
         /\ HasDirty(b, t)'
         /\ \A w \in Writers : wr[w].txg # t /\ wr'[w].txg # t)
        => DirtyData(b, t)' = DirtyData(b, t)

\* a reader that holds the range lock sees what the completed writes stored
LockedReadConsistent ==
    \A r \in Ranges :
        (\A b \in RangeBlocks(r[1], r[2]) : ~WriteLocked(b))
        => dmu_read_impl(r[1], r[2]) = Stored(r[1], r[2])

DirtySorted ==
    \A b \in Blocks : \A i \in 1 .. (Len(db_dirty_records[b]) - 1) :
        db_dirty_records[b][i].dr_txg > db_dirty_records[b][i + 1].dr_txg

\* C3: group N is DONE before group N+1 is SYNCING, so at most one group is
\* SYNCING and its txg lies after the last synced txg and not after the open
\* txg; the dirty records of a block are synced oldest group first: none is
\* left behind for a group older than the one that is syncing
GroupOrdering ==
    /\ Cardinality(TxgsIn("SYNCING")) <= 1
    /\ \A n \in Txgs :
          (n + 1 \in Txgs /\ txg_state[n + 1] \in {"SYNCING", "DONE"})
          => txg_state[n] = "DONE"
    /\ \A t \in TxgsIn("SYNCING") :
          spa_last_synced_txg < t /\ t <= tx_open_txg
    /\ spa_last_synced_txg <= spa_syncing_txg
    /\ spa_syncing_txg <= tx_open_txg
    /\ DirtySorted
    /\ \A b \in Blocks : \A i \in 1 .. Len(db_dirty_records[b]) :
          /\ db_dirty_records[b][i].dr_txg > spa_last_synced_txg
          /\ TxgsIn("SYNCING") # {}
             => db_dirty_records[b][i].dr_txg >= spa_syncing_txg

\* a block is dirty in the syncing group and in the next one, which has
\* drained and waits for the sync to end
GroupOrderingWitness ==
    \E t \in TxgsIn("SYNCING"), b \in Blocks :
        /\ t + 1 \in TxgsIn("QUIESCING")
        /\ tc_count[t + 1] = 0
        /\ HasDirty(b, t)
        /\ HasDirty(b, t + 1)

\* the state changes of group t in one step
TxgStep(t) ==
    /\ txg_state'[t] # txg_state[t]
       => /\ <<txg_state[t], txg_state'[t]>> \in
                {<<"FUTURE", "OPEN">>, <<"OPEN", "QUIESCING">>,
                 <<"QUIESCING", "SYNCING">>, <<"SYNCING", "DONE">>}
          /\ txg_state'[t] = "SYNCING" => tc_count[t] = 0
          /\ txg_state'[t] = "DONE" => \A b \in Blocks : ~HasDirty(b, t)
    /\ tc_count'[t] > tc_count[t] => txg_state[t] = "OPEN"
    /\ tc_count[t] > 0 => txg_state[t] \in {"OPEN", "QUIESCING"}

\* C4: a transaction group goes through OPEN, QUIESCING, SYNCING and DONE in
\* that order; it starts syncing only when every transaction assigned to it
\* has committed, it is DONE only when none of its dirty records is left, and
\* transactions are assigned to the OPEN group only
TxgStateOrder == [][\A t \in Txgs : TxgStep(t)]_vars

\* the first group is DONE after it synced a dirty record, the second is
\* syncing and a transaction is assigned to the third
TxgStateOrderWitness ==
    /\ txg_state[1] = "DONE"
    /\ \E b \in Blocks : db_blkptr[b].lbirth = 1
    /\ TxgsIn("SYNCING") # {}
    /\ tc_count[tx_open_txg] > 0

(***************************************************************************)
(* The intent log with two threads, on a pool that may be frozen.           *)
(***************************************************************************)
ZilsSync == {"z1", "z2"}

\* spa_freeze() of ziltest froze the pool at the first txg, or did not
InitSync ==
    /\ InitPipe
    /\ spa_freeze_txg \in {UINT64_MAX, 1}
    /\ InitDbufs
    /\ InitVop
    /\ pol = IdlePolicy
    /\ InitFuncsIdle
    /\ InitFreeIdle

NextSync ==
    \/ TxgQuiesce
    \/ TxgStartSync
    \/ TxgSyncDone
    \/ \E b \in Blocks : DbufSyncWait(b)
    \/ \E b \in Blocks : DbufSyncLeaf(b)
    \/ \E b \in Blocks : DbufEvict(b)
    \/ \E w \in Writers, r \in AlignedRanges : DmuWriteBegin(w, r[1], r[2], 1)
    \/ \E w \in Writers : DmuWriteWill(w)
    \/ \E w \in Writers : DmuWriteCopy(w)
    \/ \E w \in Writers : DmuTxCommit(w)
    \/ \E z \in ZilsSync, b \in Blocks, t \in Txgs, zp_nop \in PolicyNopwrites,
          freed \in BOOLEAN, fault \in Faults :
          DmuSync(z, b, t, zp_nop, freed, fault)
    \/ \E io \in zios, err \in {OK, EIO} : DmuSyncDone(io, err)
    \/ \E io \in zios, err \in {OK, EIO} : DmuSyncLateArrivalDone(io, err)

SpecSync == InitSync /\ [][NextSync]_vars

(***************************************************************************)
(* The return values of dmu_sync.                                           *)
(***************************************************************************)
\* the override state of the dirty record of txg t of block b
OverrideStateIn(list, t) == list[dbuf_find_dirty_eq(list, t)].dr_override_state
OverrideState(b, t) == OverrideStateIn(db_dirty_records[b], t)

\* the call that returns in this step issued no write and changed no dirty
\* record
NothingDone ==
    /\ zios' = zios
    /\ db_dirty_records' = db_dirty_records

\* a done callback runs only for a write that a call of dmu_sync issued and
\* that was still in flight, and only a call that returns 0 issues a write
DoneFollowsWrite ==
    /\ call'.op = "done"
       => \E io \in zios : /\ io \notin zios'
                           /\ io.z = call'.z
                           /\ io.blk = call'.blk
                           /\ io.txg = call'.txg
    /\ zios' \ zios # {} => call'.op = "dmu_sync" /\ call'.ret = OK

\* C6: dmu_sync for a txg that is not after the last synced txg, and not
\* after the freeze txg, returns EEXIST; it issues no write, no done callback
\* follows and the dirty records of the buffer stay as they are
SyncAlreadySynced ==
    [][/\ (/\ call'.op = "dmu_sync"
           /\ call'.txg <= spa_last_synced_txg
           /\ call'.txg <= spa_freeze_txg)
          => call'.ret = EEXIST /\ NothingDone
       /\ DoneFollowsWrite]_vars

\* EEXIST came back for a buffer that is dirty in a later group
SyncAlreadySyncedWitness ==
    /\ call.op = "dmu_sync"
    /\ call.ret = EEXIST
    /\ db_dirty_records[call.blk] # <<>>
    /\ zios = {}

\* dmu_sync for a txg after the syncing txg, on a buffer without a dirty
\* record of that txg, returns ENOENT and does nothing, whatever the freeze
\* txg is
SyncNotDirtyAnyTxg ==
    [][(/\ call'.op = "dmu_sync"
        /\ call'.txg > spa_syncing_txg
        /\ ~HasDirty(call'.blk, call'.txg))
       => call'.ret = ENOENT /\ NothingDone]_vars

\* C7: dmu_sync for a txg after the syncing txg and not after the freeze
\* txg, on a buffer without a dirty record of that txg, returns ENOENT; it
\* issues no write, no done callback follows and no dirty record changes
SyncNotDirty ==
    [][/\ (/\ call'.op = "dmu_sync"
           /\ call'.txg > spa_syncing_txg
           /\ call'.txg <= spa_freeze_txg
           /\ ~HasDirty(call'.blk, call'.txg))
          => call'.ret = ENOENT /\ NothingDone
       /\ zios' \ zios # {} => call'.op = "dmu_sync" /\ call'.ret = OK]_vars

\* ENOENT came back for a buffer that is dirty in another group
SyncNotDirtyWitness ==
    /\ call.op = "dmu_sync"
    /\ call.ret = ENOENT
    /\ db_dirty_records[call.blk] # <<>>
    /\ ~HasDirty(call.blk, call.txg)

\* the writes of dmu_sync in flight for the dirty record of txg t of block b
SyncWrites(b, t) == {io \in zios : ~io.late /\ io.blk = b /\ io.txg = t}

\* a dirty record is DR_IN_DMU_SYNC exactly while one write for it is in
\* flight
OneSyncWrite ==
    \A b \in Blocks, t \in Txgs :
        /\ Cardinality(SyncWrites(b, t)) <= 1
        /\ SyncWrites(b, t) # {}
           <=> (HasDirty(b, t) /\ OverrideState(b, t) = "DR_IN_DMU_SYNC")

\* a call of dmu_sync that gets to the dirty record of its txg
SyncCallStep ==
    (/\ call'.op = "dmu_sync"
     /\ call'.txg <= spa_freeze_txg
     /\ call'.txg > spa_syncing_txg
     /\ HasDirty(call'.blk, call'.txg))
    => IF OverrideState(call'.blk, call'.txg) = "DR_NOT_OVERRIDDEN"
       THEN /\ call'.ret = OK
            /\ OverrideStateIn(db_dirty_records'[call'.blk], call'.txg)
                   = "DR_IN_DMU_SYNC"
            /\ Cardinality(zios' \ zios) = 1
       ELSE /\ call'.ret = EALREADY
            /\ NothingDone

\* a record becomes DR_IN_DMU_SYNC only by a call of dmu_sync that returns 0
InSyncByCall ==
    \A b \in Blocks, t \in Txgs :
        (/\ HasDirty(b, t)
         /\ HasDirty(b, t)'
         /\ OverrideState(b, t) # "DR_IN_DMU_SYNC"
         /\ OverrideState(b, t)' = "DR_IN_DMU_SYNC")
        => /\ OverrideState(b, t) = "DR_NOT_OVERRIDDEN"
           /\ call' = [op |-> "dmu_sync", z |-> call'.z, blk |-> b, txg |-> t,
                       ret |-> OK]

\* C8: at most one write of dmu_sync is in flight for a dirty record: of the
\* calls for one buffer and txg the one that finds the record
\* DR_NOT_OVERRIDDEN makes it DR_IN_DMU_SYNC and returns 0, and every call
\* that finds it DR_IN_DMU_SYNC or DR_OVERRIDDEN returns EALREADY and issues
\* no write
SingleSyncInFlight == []OneSyncWrite /\ [][SyncCallStep /\ InSyncByCall]_vars

\* a second thread got EALREADY while the write of the first is in flight
SingleSyncInFlightWitness ==
    /\ call.op = "dmu_sync"
    /\ call.ret = EALREADY
    /\ \E io \in SyncWrites(call.blk, call.txg) : io.z # call.z

(***************************************************************************)
(* The override state of a dirty record.                                    *)
(***************************************************************************)
\* the override state of the dirty record of txg t of block b before and
\* after a step, "none" when the block has no such record
OverrideBefore(b, t) ==
    IF HasDirty(b, t) THEN OverrideState(b, t) ELSE "none"

OverrideAfter(b, t) ==
    IF HasDirty(b, t)'
    THEN OverrideStateIn(db_dirty_records'[b], t)
    ELSE "none"

\* the override state of a dirty record changes only from not-overridden to
\* in-sync and from in-sync to overridden or not-overridden: nothing makes a
\* record overridden that was not in-sync, and a record that is overridden
\* stays so as long as it exists
OverrideMonotone ==
    [][\A b \in Blocks, t \in Txgs :
        /\ (/\ HasDirty(b, t)
            /\ HasDirty(b, t)'
            /\ OverrideBefore(b, t) # OverrideAfter(b, t))
           => <<OverrideBefore(b, t), OverrideAfter(b, t)>> \in
                 {<<"DR_NOT_OVERRIDDEN", "DR_IN_DMU_SYNC">>,
                  <<"DR_IN_DMU_SYNC", "DR_OVERRIDDEN">>,
                  <<"DR_IN_DMU_SYNC", "DR_NOT_OVERRIDDEN">>}
        /\ (/\ OverrideAfter(b, t) = "DR_OVERRIDDEN"
            /\ OverrideBefore(b, t) # "DR_OVERRIDDEN")
           => OverrideBefore(b, t) = "DR_IN_DMU_SYNC"]_vars

\* the steps that change the override state of the record of txg t of b
OverrideStep(b, t) ==
    OverrideBefore(b, t) # OverrideAfter(b, t)
    => \/ /\ OverrideBefore(b, t) = "none"
          /\ OverrideAfter(b, t) = "DR_NOT_OVERRIDDEN"
       \/ /\ OverrideBefore(b, t) \in {"DR_NOT_OVERRIDDEN", "DR_OVERRIDDEN"}
          /\ OverrideAfter(b, t) = "none"
       \/ /\ OverrideBefore(b, t) = "DR_NOT_OVERRIDDEN"
          /\ OverrideAfter(b, t) = "DR_IN_DMU_SYNC"
          /\ call'.op = "dmu_sync"
          /\ call'.ret = OK
       \/ /\ OverrideBefore(b, t) = "DR_IN_DMU_SYNC"
          /\ OverrideAfter(b, t) = "DR_OVERRIDDEN"
          /\ call'.op = "done"
          /\ call'.ret = OK
       \/ /\ OverrideBefore(b, t) = "DR_IN_DMU_SYNC"
          /\ OverrideAfter(b, t) = "DR_NOT_OVERRIDDEN"
          /\ call'.op = "done"
          /\ call'.ret # OK
       \/ /\ OverrideBefore(b, t) \in {"none", "DR_NOT_OVERRIDDEN"}
          /\ OverrideAfter(b, t) = "DR_OVERRIDDEN"
          /\ \E w \in Writers : wr[w].pc = "clone" /\ wr[w].txg = t
          /\ db_dirty_records'[b][1].dr_brtwrite
       \/ /\ OverrideBefore(b, t) = "DR_OVERRIDDEN"
          /\ OverrideAfter(b, t) = "DR_NOT_OVERRIDDEN"
          /\ \E w \in Writers : wr[w].pc = "will" /\ wr[w].txg = t

\* the done callback of a write of dmu_sync leaves the record overridden
\* when the write succeeded and not-overridden when it failed
DoneStep(b, t) ==
    (SyncWrites(b, t) # {} /\ SyncWrites(b, t)' = {})
    => /\ call'.op = "done"
       /\ OverrideBefore(b, t) = "DR_IN_DMU_SYNC"
       /\ OverrideAfter(b, t) = IF call'.ret = OK THEN "DR_OVERRIDDEN"
                                ELSE "DR_NOT_OVERRIDDEN"

\* C9: the override state of a dirty record changes from not-overridden to
\* in-sync by dmu_sync and from in-sync to overridden (success) or
\* not-overridden (failure) by dmu_sync_done; besides, dmu_brt_clone makes
\* the record of a cloned block overridden at once, and dirtying the block
\* again in the same txg takes an overridden record back to not-overridden
OverrideTransitions ==
    [][\A b \in Blocks, t \in Txgs : OverrideStep(b, t) /\ DoneStep(b, t)]_vars

\* the record of a cloned block is overridden and no dmu_sync was called
OverrideTransitionsWitness ==
    \E b \in Blocks :
        /\ db_dirty_records[b] # <<>>
        /\ db_dirty_records[b][1].dr_brtwrite
        /\ db_dirty_records[b][1].dr_override_state = "DR_OVERRIDDEN"
        /\ \A w \in Writers : wr[w].pc = "idle"

(***************************************************************************)
(* Nopwrite of a write of dmu_sync.                                         *)
(***************************************************************************)
\* block b has a dirty record of a group after t, or of a group before t
DirtyAfter(b, t) ==
    \E i \in 1 .. Len(db_dirty_records[b]) : db_dirty_records[b][i].dr_txg > t

DirtyBefore(b, t) ==
    \E i \in 1 .. Len(db_dirty_records[b]) : db_dirty_records[b][i].dr_txg < t

VopKinds == {"lockfirst", "txfirst"}
TxModes == {"DMU_TX_NOWAIT", "DMU_TX_WAIT"}

\* zfs_enter: a vnode op starts; a thread without locks assigns with
\* DMU_TX_WAIT
VopEnter(t, kind, mode) ==
    /\ vop[t].pc = "idle"
    /\ kind = "txfirst" => mode = "DMU_TX_WAIT"
    /\ vop' = [vop EXCEPT ![t] =
                  [pc |-> IF kind = "lockfirst" THEN "top" ELSE "assign",
                   kind |-> kind, mode |-> mode, txg |-> 0, tried |-> 0,
                   waited |-> FALSE]]
    /\ UNCHANGED <<pipeVars, dbufVars, wr, zios, call, nops, brt_pending, db_changed, policyVars, freeVars,
                   logical, z_lock>>

\* top: rw_enter(...), which blocks while another thread holds the lock
VopLock(t) ==
    /\ vop[t].pc = "top"
    /\ z_lock = "none"
    /\ z_lock' = t
    /\ vop' = [vop EXCEPT ![t].pc = "assign"]
    /\ UNCHANGED <<pipeVars, dbufVars, wr, zios, call, nops, brt_pending, db_changed, policyVars, freeVars,
                   logical>>

\* dmu_tx_assign: the tx joins the open txg, or the open txg cannot take it
\* (restart): DMU_TX_NOWAIT returns ERESTART, DMU_TX_WAIT blocks in
\* txg_wait_open until a later txg opens
VopAssign(t, restart) ==
    /\ vop[t].pc = "assign"
    /\ IF ~restart
       THEN /\ vop' = [vop EXCEPT ![t].txg = tx_open_txg,
                         ![t].pc = IF vop[t].kind = "lockfirst"
                                   THEN "work" ELSE "lock_wait"]
            /\ tc_count' = [tc_count EXCEPT ![tx_open_txg] = @ + 1]
       ELSE /\ vop' = [vop EXCEPT ![t].tried = tx_open_txg,
                         ![t].pc = IF vop[t].mode = "DMU_TX_NOWAIT"
                                   THEN ERESTART ELSE "txg_wait_open"]
            /\ UNCHANGED tc_count
    /\ UNCHANGED <<txg_state, spa_freeze_txg, dbufVars, wr, zios, call, nops, db_changed, policyVars, freeVars,
                   brt_pending, logical, z_lock>>

\* an error path that keeps the locks while it waits
VopRestart_keeplock(t) ==
    /\ vop[t].pc = ERESTART
    /\ vop' = [vop EXCEPT ![t].waited = TRUE, ![t].pc = "txg_wait_open"]
    /\ UNCHANGED <<pipeVars, dbufVars, wr, zios, call, nops, brt_pending, db_changed, policyVars, freeVars,
                   logical, z_lock>>

\* if (error) { rw_exit(...); if (error == ERESTART) { waited = B_TRUE;
\* dmu_tx_wait(tx); ...
VopRestart(t) ==
    /\ vop[t].pc = ERESTART
    /\ z_lock' = IF z_lock = t THEN "none" ELSE z_lock
    /\ vop' = [vop EXCEPT ![t].waited = TRUE, ![t].pc = "dmu_tx_wait"]
    /\ UNCHANGED <<pipeVars, dbufVars, wr, zios, call, nops, brt_pending, db_changed, policyVars, freeVars,
                   logical>>

\* dmu_tx_wait returns once a later txg is open: dmu_tx_abort(tx); goto top
VopWaitDone(t) ==
    /\ vop[t].pc = "dmu_tx_wait"
    /\ tx_open_txg > vop[t].tried
    /\ vop' = [vop EXCEPT ![t].pc = "top"]
    /\ UNCHANGED <<pipeVars, dbufVars, wr, zios, call, nops, brt_pending, db_changed, policyVars, freeVars,
                   logical, z_lock>>

\* txg_wait_open returns inside dmu_tx_assign(DMU_TX_WAIT), which tries again
VopWaitOpenDone(t) ==
    /\ vop[t].pc = "txg_wait_open"
    /\ tx_open_txg > vop[t].tried
    /\ vop' = [vop EXCEPT ![t].pc = "assign"]
    /\ UNCHANGED <<pipeVars, dbufVars, wr, zios, call, nops, brt_pending, db_changed, policyVars, freeVars,
                   logical, z_lock>>

\* a thread inside its tx takes the lock, which blocks while it is held
VopLockInTx(t) ==
    /\ vop[t].pc = "lock_wait"
    /\ z_lock = "none"
    /\ z_lock' = t
    /\ vop' = [vop EXCEPT ![t].pc = "work"]
    /\ UNCHANGED <<pipeVars, dbufVars, wr, zios, call, nops, brt_pending, db_changed, policyVars, freeVars,
                   logical>>

\* do_real_work(); dmu_tx_commit(tx)
VopCommit(t) ==
    /\ vop[t].pc = "work"
    /\ tc_count' = [tc_count EXCEPT ![vop[t].txg] = @ - 1]
    /\ vop' = [vop EXCEPT ![t].pc = "unlock"]
    /\ UNCHANGED <<txg_state, spa_freeze_txg, dbufVars, wr, zios, call, nops, db_changed, policyVars, freeVars,
                   brt_pending, logical, z_lock>>

\* rw_exit(...); zfs_exit(zfsvfs); return
VopExit(t) ==
    /\ vop[t].pc = "unlock"
    /\ z_lock' = "none"
    /\ vop' = [vop EXCEPT ![t] = IdleVop]
    /\ UNCHANGED <<pipeVars, dbufVars, wr, zios, call, nops, brt_pending, db_changed, policyVars, freeVars,
                   logical>>

NextVop ==
    \/ TxgQuiesce
    \/ TxgStartSync
    \/ TxgSyncDone
    \/ \E t \in VopThreads, kind \in VopKinds, mode \in TxModes :
          VopEnter(t, kind, mode)
    \/ \E t \in VopThreads : VopLock(t)
    \/ \E t \in VopThreads, restart \in BOOLEAN : VopAssign(t, restart)
    \/ \E t \in VopThreads : VopRestart(t)
    \/ \E t \in VopThreads : VopWaitDone(t)
    \/ \E t \in VopThreads : VopWaitOpenDone(t)
    \/ \E t \in VopThreads : VopLockInTx(t)
    \/ \E t \in VopThreads : VopCommit(t)
    \/ \E t \in VopThreads : VopExit(t)

SpecVop == Init /\ [][NextVop]_vars

\* thread a holds the lock and is blocked until a later txg opens, thread b
\* waits for the lock inside a tx of the quiescing txg: the quiescing txg
\* cannot drain, so no later txg opens
DeadlockCycle(a, b) ==
    /\ z_lock = a
    /\ vop[a].pc \in {"txg_wait_open", "dmu_tx_wait"}
    /\ vop[a].tried = tx_open_txg
    /\ vop[b].pc = "lock_wait"
    /\ txg_state[vop[b].txg] = "QUIESCING"

\* no step is possible although a vnode op is under way and a later txg
\* could still open
VopStuck ==
    /\ \E t \in VopThreads : vop[t].pc # "idle"
    /\ tx_open_txg < MaxTxg
    /\ ~ENABLED NextVop

\* C5: a thread that assigns with DMU_TX_NOWAIT and on ERESTART drops its
\* locks before dmu_tx_wait is never the lock holder of a deadlock, in which
\* a thread inside an uncommitted tx waits for a lock whose holder is blocked
\* in assign; every state in which the vnode ops are stuck is such a deadlock
\* and its lock holder assigned with DMU_TX_WAIT
RestartProtocol ==
    /\ \A a \in VopThreads, b \in VopThreads :
          DeadlockCycle(a, b) => vop[a].mode = "DMU_TX_WAIT"
    /\ VopStuck => \E a \in VopThreads, b \in VopThreads : DeadlockCycle(a, b)

\* the deadlock of a lock holder that assigned with DMU_TX_WAIT
RestartProtocolWitness ==
    \E a \in VopThreads, b \in VopThreads :
        /\ DeadlockCycle(a, b)
        /\ vop[a].mode = "DMU_TX_WAIT"
        /\ vop[a].kind = "lockfirst"
        /\ VopStuck


(***************************************************************************)
(* The done callback of dmu_sync.                                           *)
(***************************************************************************)
\* the writes thread z of the intent log has in flight
ZiosOf(z) == {io \in zios : io.z = z}

\* the zio pipeline completes every write it was given and runs its done
\* callback
SpecSyncLive ==
    /\ SpecSync
    /\ \A z \in ZilsSync :
          /\ WF_vars(\E io \in ZiosOf(z), err \in {OK, EIO} :
                        DmuSyncDone(io, err))
          /\ WF_vars(\E io \in ZiosOf(z), err \in {OK, EIO} :
                        DmuSyncLateArrivalDone(io, err))

\* a return of 0 leaves exactly one write in flight, any other return none,
\* and a done callback takes the write it is for out of flight and reports
\* 0 or the error of the write
DoneOnce ==
    /\ (call'.op = "dmu_sync" /\ call'.ret = OK)
       => /\ ZiosOf(call'.z) = {}
          /\ \E io \in zios' \ zios :
                /\ zios' = zios \cup {io}
                /\ <<io.z, io.blk, io.txg>> = <<call'.z, call'.blk, call'.txg>>
    /\ (call'.op = "dmu_sync" /\ call'.ret # OK) => zios' = zios
    /\ call'.op = "done"
       => /\ call'.ret \in {OK, EIO}
          /\ \E io \in zios :
                /\ zios' = zios \ {io}
                /\ <<io.z, io.blk, io.txg>> = <<call'.z, call'.blk, call'.txg>>
    /\ call'.op \notin {"dmu_sync", "done"} => zios' = zios

\* the done callback of the write in flight for thread z comes
DoneComes ==
    \A z \in ZilsSync : (ZiosOf(z) # {}) ~> (call.op = "done" /\ call.z = z)

\* the write whose done callback runs in this step
DoneZio == CHOOSE io \in zios : io \notin zios'

\* the dirty record of txg t in the list
RecordIn(list, t) == list[dbuf_find_dirty_eq(list, t)]

\* the block pointer a write of the record's data leaves: the original one
\* when the write was a nopwrite, one born in the txg otherwise
WrittenFor(io, d, dr, bp) ==
    /\ bp.data = DataOf(d, dr)
    /\ \/ bp = WrittenBP(io.txg, DataOf(d, dr))
       \/ io.nopwrite /\ bp = io.bp_orig

\* a successful done callback finds the dirty record of the block and txg of
\* its write overridden with the written block pointer, whatever path the
\* call of dmu_sync took
DoneOverridesAnyPath ==
    [][\A b \in Blocks, t \in Txgs :
        (/\ call'.op = "done"
         /\ call'.ret = OK
         /\ call'.blk = b
         /\ call'.txg = t
         /\ HasDirty(b, t)')
        => OverrideAfter(b, t) = "DR_OVERRIDDEN"]_vars

\* dmu_sync_done for the write dmu_sync issued for a dirty record
DoneOfRecord ==
    (call'.op = "done" /\ ~DoneZio.late)
    => \E b \in Blocks, t \in Txgs :
        /\ b = call'.blk
        /\ t = call'.txg
        /\ OverrideBefore(b, t) = "DR_IN_DMU_SYNC"
        /\ HasDirty(b, t)'
        /\ db_changed'[b] = {}
        /\ IF call'.ret = OK
           THEN /\ OverrideAfter(b, t) = "DR_OVERRIDDEN"
                /\ WrittenFor(DoneZio, Dbuf(b),
                              RecordIn(db_dirty_records[b], t),
                              RecordIn(db_dirty_records'[b], t).dr_overridden_by)
           ELSE /\ OverrideAfter(b, t) = "DR_NOT_OVERRIDDEN"
                /\ dmu_sync(b, t, FALSE, FALSE, "none")'.ret = OK
                /\ t > spa_syncing_txg'
                   => \E i \in 1 .. Len(db_dirty_records'[b]) :
                         LET r == dmu_sync(b, t, FALSE, FALSE, "none")'.d.dirty[i]
                         IN  /\ r.dr_txg = t
                             /\ r.dr_override_state = "DR_IN_DMU_SYNC"

\* the done callback of a late arrival leaves the dirty records and the
\* sleeping threads alone
DoneOfLateArrival ==
    (call'.op = "done" /\ DoneZio.late)
    => /\ db_dirty_records' = db_dirty_records
       /\ db_changed' = db_changed

\* a record is DR_IN_DMU_SYNC only while its write is in flight
NoInSyncLeft ==
    \A b \in Blocks, t \in Txgs :
        (HasDirty(b, t) /\ OverrideState(b, t) = "DR_IN_DMU_SYNC")
        => SyncWrites(b, t) # {}

\* C11: for every dmu_sync that returns 0 the done callback runs exactly once
\* with the result of the write; when the call issued the write for the dirty
\* record of its txg, the record is DR_OVERRIDDEN with the written block
\* pointer on success and DR_NOT_OVERRIDDEN on error, so that dmu_sync can
\* return 0 for it again, the threads sleeping on db_changed are woken, and
\* no record stays DR_IN_DMU_SYNC after its write completed; the done
\* callback of a late arrival changes no dirty record
DoneCallback ==
    /\ [][DoneOnce /\ DoneOfRecord /\ DoneOfLateArrival]_vars
    /\ []NoInSyncLeft
    /\ DoneComes

\* the write for a dirty record failed: the record is not overridden and a
\* call of dmu_sync for it would issue a write again
DoneCallbackWitness ==
    /\ call.op = "done"
    /\ call.ret = EIO
    /\ HasDirty(call.blk, call.txg)
    /\ OverrideState(call.blk, call.txg) = "DR_NOT_OVERRIDDEN"
    /\ call.txg > spa_syncing_txg
    /\ call.txg <= spa_freeze_txg
    /\ db_changed[call.blk] = {}
    /\ LET res == dmu_sync(call.blk, call.txg, FALSE, FALSE, "none")
       IN  res.ret = OK /\ \E io \in res.io : ~io.late


(***************************************************************************)
(* The write policy: dmu_write_policy on every argument.                    *)
(***************************************************************************)
InitPolicy ==
    /\ InitPipe
    /\ spa_freeze_txg = UINT64_MAX
    /\ InitDbufs
    /\ InitVop
    /\ pol \in {[in |-> i, done |-> FALSE, zp |-> IdlePolicy.zp] :
                  i \in PolicyInputs}
    /\ InitFuncsIdle
    /\ InitFreeIdle

NextPolicy == DmuWritePolicy

SpecPolicy == InitPolicy /\ [][NextPolicy]_vars

\* C12: the policy dmu_write_policy gives never has dedup and nopwrite both
\* on, whatever the object type, level, flags, dataset settings and tunables
DedupExcludesNopwrite ==
    pol.done => ~(pol.zp.zp_dedup /\ pol.zp.zp_nopwrite)

\* dedup is on for a write for which nopwrite would be on without it
DedupExcludesNopwriteWitness ==
    /\ pol.done
    /\ pol.zp.zp_dedup
    /\ ~pol.zp.zp_nopwrite
    /\ NopwriteSetting(FALSE, pol.zp.zp_checksum, pol.zp.zp_compress,
                       pol.in.hash.zfs_nopwrite_enabled)

\* C13: a metadata write (level > 0, metadata object type or spill block)
\* never has the checksum off: it has the checksum of the dataset when that
\* is flagged for metadata and not embedded, and fletcher4 otherwise
MetadataChecksummed ==
    (pol.done /\ IsMetadataWrite(pol.in))
    => /\ pol.zp.zp_checksum # "off"
       /\ pol.zp.zp_checksum =
             IF /\ "ZCHECKSUM_FLAG_METADATA"
                      \in zio_checksum_flags[pol.in.hash.os_checksum]
                /\ "ZCHECKSUM_FLAG_EMBEDDED"
                      \notin zio_checksum_flags[pol.in.hash.os_checksum]
             THEN pol.in.hash.os_checksum
             ELSE "fletcher4"

\* an indirect block of a plain file in a dataset with checksum=off has
\* the checksum fletcher4
MetadataChecksummedWitness ==
    /\ pol.done
    /\ pol.in.level > 0
    /\ pol.in.type = "DMU_OT_PLAIN_FILE_CONTENTS"
    /\ pol.in.hash.os_checksum = "off"
    /\ pol.zp.zp_checksum = "fletcher4"

\* a write with encryption on has nopwrite off, whatever the object type
EncryptedNoNopwriteAnyType ==
    (pol.done /\ pol.zp.zp_encrypt) => ~pol.zp.zp_nopwrite

\* C14: a write with encryption on (dataset encrypted, no WP_NOFILL) of an
\* object of an encrypted type has nopwrite off at every level; for an
\* object of a type that is not encrypted the policy has dedup off instead
EncryptedNoNopwrite ==
    (pol.done /\ pol.zp.zp_encrypt)
    => IF DMU_OT_IS_ENCRYPTED(pol.in.type)
       THEN ~pol.zp.zp_nopwrite
       ELSE ~pol.zp.zp_dedup

\* a plain file block of an encrypted dataset for which nopwrite would be on
\* without encryption
EncryptedNoNopwriteWitness ==
    /\ pol.done
    /\ pol.zp.zp_encrypt
    /\ pol.in.type = "DMU_OT_PLAIN_FILE_CONTENTS"
    /\ PolicyPlain(pol.in).nopwrite
    /\ ~pol.zp.zp_nopwrite

\* the policy of the write the syncing context issues for the same block
SyncingContextPolicy(in) == dmu_write_policy([in EXCEPT !.wp = {}])

\* C15: a level-0 write of data with WP_DMU_SYNC in a dataset with dedup has
\* dedup and dedup-verify off and the dedup checksum of the dataset, which is
\* the checksum the write of the block in syncing context has
DmuSyncDedupOff ==
    (/\ pol.done
     /\ pol.in.level = 0
     /\ ~IsMetadataWrite(pol.in)
     /\ "WP_DMU_SYNC" \in pol.in.wp
     /\ pol.in.hash.os_dedup_checksum # "off")
    => /\ ~pol.zp.zp_dedup
       /\ ~pol.zp.zp_dedup_verify
       /\ pol.zp.zp_checksum = pol.in.hash.os_dedup_checksum
       /\ pol.zp.zp_checksum = SyncingContextPolicy(pol.in).zp_checksum

\* the write in syncing context of the same block has dedup and
\* dedup-verify on
DmuSyncDedupOffWitness ==
    /\ pol.done
    /\ pol.in.level = 0
    /\ "WP_DMU_SYNC" \in pol.in.wp
    /\ ~pol.zp.zp_dedup
    /\ pol.zp.zp_checksum = "sha256"
    /\ pol.in.hash.dn_checksum = "inherit"
    /\ pol.in.hash.os_checksum = "fletcher4"
    /\ SyncingContextPolicy(pol.in).zp_dedup
    /\ SyncingContextPolicy(pol.in).zp_dedup_verify

\* the extra copy redundant_metadata asks for
ExtraCopy(in) ==
    IF in.copy.os_redundant_metadata = "ZFS_REDUNDANT_METADATA_ALL"
    THEN 1
    ELSE IF /\ in.copy.os_redundant_metadata = "ZFS_REDUNDANT_METADATA_MOST"
            /\ \/ in.level >= 2
               \/ DMU_OT_IS_METADATA(in.type)
               \/ "WP_SPILL" \in in.wp
    THEN 1
    ELSE 0

\* the copies of a metadata write are within the maximum replication of the
\* pool, and the gang copies are not fewer
CopiesWithinPool ==
    /\ pol.zp.zp_copies <= pol.in.copy.spa_max_replication
    /\ pol.zp.zp_gang_copies >= pol.zp.zp_copies

\* under redundant_metadata=all and most a metadata write has the copies of
\* the dataset and the extra copy, up to the maximum replication of the pool
CopiesOneMore ==
    (/\ pol.done
     /\ IsMetadataWrite(pol.in)
     /\ pol.in.copy.os_redundant_metadata \in
           {"ZFS_REDUNDANT_METADATA_ALL", "ZFS_REDUNDANT_METADATA_MOST"})
    => /\ pol.zp.zp_copies = Min(pol.in.copy.os_copies + ExtraCopy(pol.in),
                                 pol.in.copy.spa_max_replication)
       /\ CopiesWithinPool

\* the write is for an object of the dedup table and dmu_ddt_copies is set
DdtOverride(in) == in.copy.dmu_ddt_copies > 0 /\ in.type = "DMU_OT_DDT_ZAP"

\* the most copies a block of an encrypted object can have
EncryptedCopies(in, copies) ==
    IF /\ in.os_encrypted
       /\ "WP_NOFILL" \notin in.wp
       /\ DMU_OT_IS_ENCRYPTED(in.type)
    THEN Min(copies, SPA_DVAS_PER_BP - 1)
    ELSE copies

\* C16: under redundant_metadata=all a metadata write asks for one copy more
\* than the dataset's copies, under most it does so exactly when its level
\* is >= 2 or its object type is metadata or it is a spill block; an object
\* of the dedup table asks for dmu_ddt_copies instead when that is set (one
\* more from level 2 on); what is asked for is cut to SPA_DVAS_PER_BP - 1 for
\* an encrypted object and to the maximum replication of the pool, and the
\* gang copies are never fewer than the copies
MetadataCopyCount ==
    (pol.done /\ IsMetadataWrite(pol.in))
    => /\ CopiesWithinPool
       /\ pol.in.copy.os_redundant_metadata \in
             {"ZFS_REDUNDANT_METADATA_ALL", "ZFS_REDUNDANT_METADATA_MOST"}
          => pol.zp.zp_copies =
                Min(EncryptedCopies(pol.in,
                        IF DdtOverride(pol.in)
                        THEN pol.in.copy.dmu_ddt_copies
                             + (IF pol.in.level >= 2 THEN 1 ELSE 0)
                        ELSE pol.in.copy.os_copies + ExtraCopy(pol.in)),
                    pol.in.copy.spa_max_replication)

\* a level-1 block of a plain file under redundant_metadata=most has the
\* copies of the dataset, a level-2 block one more
MetadataCopyCountWitness ==
    /\ pol.done
    /\ pol.in.copy.os_redundant_metadata = "ZFS_REDUNDANT_METADATA_MOST"
    /\ pol.in.type = "DMU_OT_PLAIN_FILE_CONTENTS"
    /\ pol.in.level = 1
    /\ pol.in.copy.os_copies = 1
    /\ pol.zp.zp_copies = 1
    /\ dmu_write_policy([pol.in EXCEPT !.level = 2]).zp_copies = 2


(***************************************************************************)
(* Long frees: callers of dmu_free_long_range and the pipeline.            *)
(***************************************************************************)
InitFree ==
    /\ InitPipe
    /\ spa_freeze_txg = UINT64_MAX
    /\ InitDbufs
    /\ InitVop
    /\ pol = IdlePolicy
    /\ InitFuncsIdle
    /\ \E d \in FreeDnodes : dnodes = [c \in FreeCallers |-> d]
    /\ fr = [c \in FreeCallers |-> IdleFree]
    /\ dp_long_free_dirty_pertxg = [t \in Txgs |-> 0]
    /\ zfs_per_txg_dirty_frees_percent \in FreesPercents

NextFree ==
    \/ TxgQuiesce
    \/ TxgStartSync
    \/ TxgSyncDone
    \/ \E c \in FreeCallers : \E r \in FreeRanges(c) : FreeBegin(c, r[1], r[2])
    \/ \E c \in FreeCallers, unmounting \in BOOLEAN,
          fault \in {"none", "chunk", "assign"} :
          FreeAssign(c, unmounting, fault)
    \/ \E c \in FreeCallers : FreeChunk(c)
    \/ \E c \in FreeCallers : FreeWaitOpenDone(c)

SpecFree == InitFree /\ [][NextFree]_vars


\* the level-1 blocks with allocated data in the range a call was asked to
\* free, as the object was when the call began
RangeL1s(r) == AllocatedL1s(r.alloc0 \cap BlocksIn(r.offset, r.len1))

\* the level-1 blocks counted for a chunk are within the cap
ChunkCapped == \A c \in FreeCallers : fr[c].l1blks <= maxblks

\* blocks of an object are freed only by the step that commits the
\* transaction of the chunk, one transaction for each chunk, and the chunk
\* holds no more allocated level-1 blocks than the cap
ChunkOwnTx ==
    \A c \in FreeCallers :
       dnodes'[c].alloc # dnodes[c].alloc
       => /\ fr[c].pc = "assigned"
          /\ fr'[c].ntx = fr[c].ntx + 1
          /\ tc_count'[fr[c].txg] = tc_count[fr[c].txg] - 1
          /\ dnodes'[c].alloc \subseteq dnodes[c].alloc
          /\ Cardinality(AllocatedL1s(dnodes[c].alloc \ dnodes'[c].alloc))
                <= maxblks

\* a call that freed a range with more allocated level-1 blocks than the cap
\* has committed more than one freeing transaction
ManyChunks ==
    \A c \in FreeCallers :
       (/\ fr[c].pc = "done"
        /\ fr[c].ret = OK
        /\ Cardinality(RangeL1s(fr[c])) > maxblks)
       => fr[c].ntx > 1

\* C17: dmu_free_long_range frees each chunk in a transaction of its own, the
\* level-1 blocks counted for a chunk (l1blks of get_next_chunk) never exceed
\* DMU_MAX_ACCESS >> (indblkshift + 1), and a range with more allocated
\* level-1 blocks than that is freed by more than one transaction
ChunkedFree == [](ChunkCapped /\ ManyChunks) /\ [][ChunkOwnTx]_vars

\* a call has freed a range of three allocated level-1 blocks, more than the
\* cap, in two transactions
ChunkedFreeWitness ==
    \E c \in FreeCallers :
       /\ fr[c].pc = "done"
       /\ fr[c].ret = OK
       /\ Cardinality(RangeL1s(fr[c])) > maxblks
       /\ fr[c].ntx = 2
       /\ fr[c].l1blks = 1
       /\ dnodes[c].alloc \cap BlocksIn(fr[c].offset, fr[c].len1) = {}


\* the threshold of the free throttle, and the most bytes a chunk accounts
FreeThreshold == dirty_frees_threshold(zfs_per_txg_dirty_frees_percent)
ChunkBytesMax == maxblks * (2 ^ dn_indblkshift)

\* with the throttle enabled the dirty bytes of the frees of a txg stay
\* within the threshold
FreeDirtyWithinThreshold ==
    FreeThreshold > 0
    => \A t \in Txgs : dp_long_free_dirty_pertxg[t] <= FreeThreshold

\* the bytes are below the threshold and a chunk for each caller
FreeDirtyBounded ==
    FreeThreshold > 0
    => \A t \in Txgs :
          dp_long_free_dirty_pertxg[t]
             < FreeThreshold + Cardinality(FreeCallers) * ChunkBytesMax

\* a caller that read bytes at or over the threshold commits its transaction
\* without a free and waits for the next txg; bytes are added to a txg only
\* by a caller that read bytes below the threshold
FreeThrottleStep ==
    /\ \A c \in FreeCallers :
          (/\ fr[c].pc = "assigned"
           /\ fr'[c] # fr[c]
           /\ fr[c].threshold > 0
           /\ fr[c].long_free_dirty >= fr[c].threshold)
          => /\ fr'[c].pc = "wait"
             /\ fr'[c].waitfor > fr[c].txg
             /\ dnodes' = dnodes
             /\ dp_long_free_dirty_pertxg' = dp_long_free_dirty_pertxg
    /\ \A t \in Txgs :
          dp_long_free_dirty_pertxg'[t] > dp_long_free_dirty_pertxg[t]
          => \E c \in FreeCallers :
                /\ fr[c].pc = "assigned"
                /\ fr[c].txg = t
                /\ fr'[c] # fr[c]
                /\ fr[c].threshold > 0 => fr[c].long_free_dirty < fr[c].threshold
                /\ dp_long_free_dirty_pertxg'[t]
                      <= dp_long_free_dirty_pertxg[t] + ChunkBytesMax

\* C18: with the free throttle enabled (threshold > 0) a caller of
\* dmu_free_long_range adds the bytes of a chunk to the txg only when the
\* bytes it read before were below the threshold, and waits for the next txg
\* otherwise; the dirty bytes of the frees of a txg stay below the threshold
\* and one chunk for each concurrent caller
FreeThrottle == []FreeDirtyBounded /\ [][FreeThrottleStep]_vars

\* the bytes of a txg are over the threshold, and a caller waits for the
\* next txg
FreeThrottleWitness ==
    /\ FreeThreshold > 0
    /\ \E t \in Txgs : dp_long_free_dirty_pertxg[t] > FreeThreshold
    /\ \E c \in FreeCallers : fr[c].pc = "wait"


\* caller c is in, or has returned from, a dmu_free_long_range(O, 0, END)
\* that follows a dmu_free_long_range(O, 0, END) which returned 0
SecondFullFree(c) ==
    /\ fr[c].pc # "idle"
    /\ fr[c].offset = 0
    /\ fr[c].len0 = DMU_OBJECT_END
    /\ fr[c].prev.ret = OK
    /\ fr[c].prev.offset = 0
    /\ fr[c].prev.len0 = DMU_OBJECT_END

\* the second call finds the object all holes with max block id 0, leaves it
\* so, does not search for level-1 blocks, and fails only when the file
\* system is unmounting or its transaction is not assigned
FreeTwice ==
    \A c \in FreeCallers :
       SecondFullFree(c)
       => /\ fr[c].alloc0 = {}
          /\ dnodes[c].alloc = {}
          /\ dnodes[c].maxblkid = 0
          /\ fr[c].len1 = dn_datablksz
          /\ fr[c].ret \in {"none", OK, EINTR, ENOSPC}
          /\ fr[c].ntx <= 1
          /\ (fr[c].pc = "done" /\ fr[c].ret = OK) => fr[c].ntx = 1

\* a step of the second call frees nothing and leaves the max block id
FreeTwiceStep ==
    \A c \in FreeCallers :
       SecondFullFree(c) => dnodes'[c] = dnodes[c]

FreedPart(r) == BlocksIn(r.offset + r.length, r.len1 - r.length)

\* a call of dmu_free_long_range was aborted
FreeAborted(r) == r.pc = "done" /\ r.ret \in {EINTR, ENOSPC, EIO}

\* at every point of a call, also when it was aborted, the blocks of the
\* chunks committed so far are holes and no other block of the object was
\* touched: what is left to free is the prefix [offset, offset + length)
FreedFromEnd ==
    \A c \in FreeCallers :
       fr[c].pc # "idle"
       => /\ 0 <= fr[c].length
          /\ fr[c].length <= fr[c].len1
          /\ dnodes[c].alloc = fr[c].alloc0 \ FreedPart(fr[c])

\* a chunk is freed whole by the step that commits its transaction, and the
\* step that aborts a call leaves the object as the committed chunks left it
ChunkWhole ==
    \A c \in FreeCallers :
       /\ fr'[c].length < fr[c].length /\ fr[c].pc = "assigned"
          => /\ fr[c].chunk_begin = fr[c].offset + fr'[c].length
             /\ dnodes'[c].alloc =
                   dnodes[c].alloc
                      \ BlocksIn(fr[c].chunk_begin,
                                 fr[c].length - fr'[c].length)
       /\ ~FreeAborted(fr[c]) /\ FreeAborted(fr'[c])
          => /\ dnodes'[c] = dnodes[c]
             /\ fr'[c].length = fr[c].length
             /\ fr[c].pc = "top"

\* caller c has called again, with the offset of its aborted call and the
\* length that call had left
Resumed(c) ==
    /\ fr[c].pc # "idle"
    /\ fr[c].prev.ret \in {EINTR, ENOSPC, EIO}
    /\ fr[c].offset = fr[c].prev.offset
    /\ fr[c].len0 = fr[c].prev.length

\* the call that resumes an aborted one begins where that one stopped, and
\* when it returns 0 the whole range of the aborted call is holes and no
\* block outside it was touched
ResumeCompletes ==
    \A c \in FreeCallers :
       Resumed(c)
       => /\ fr[c].alloc0 =
                fr[c].prev.alloc0
                   \ BlocksIn(fr[c].offset + fr[c].prev.length,
                              fr[c].prev.len1 - fr[c].prev.length)
          /\ (fr[c].pc = "done" /\ fr[c].ret = OK)
             => dnodes[c].alloc =
                   fr[c].prev.alloc0
                      \ BlocksIn(fr[c].prev.offset, fr[c].prev.len1)

\* C20: when dmu_free_long_range aborts with EINTR or with the error of the
\* transaction assignment, the chunks committed before stay freed, no chunk
\* is freed in part, and what is left of the range is its prefix
\* [offset, offset + length); a call with the same offset and that length
\* completes the free
FreeCancel == [](FreedFromEnd /\ ResumeCompletes) /\ [][ChunkWhole]_vars

\* a call over three allocated level-1 blocks was aborted after its first
\* chunk, and the call that resumed it has returned 0
FreeCancelWitness ==
    \E c \in FreeCallers :
       /\ Resumed(c)
       /\ fr[c].pc = "done"
       /\ fr[c].ret = OK
       /\ Cardinality(AllocatedL1s(fr[c].prev.alloc0)) = FreeL1s
       /\ 0 < fr[c].prev.length
       /\ fr[c].prev.length < fr[c].prev.len1
       /\ dnodes[c].alloc \cap BlocksIn(fr[c].offset, fr[c].prev.len1) = {}


(***************************************************************************)
(* dmu_free_long_object: callers that free whole objects.                   *)
(***************************************************************************)
NextFreeObject ==
    \/ TxgQuiesce
    \/ TxgStartSync
    \/ TxgSyncDone
    \/ \E c \in FreeCallers : DmuFreeLongObject(c)
    \/ \E c \in FreeCallers, unmounting \in BOOLEAN,
          fault \in {"none", "chunk", "assign"} :
          FreeAssign(c, unmounting, fault)
    \/ \E c \in FreeCallers : FreeChunk(c)
    \/ \E c \in FreeCallers : FreeWaitOpenDone(c)
    \/ \E c \in FreeCallers, fault \in BOOLEAN : FreeObjectAssign(c, fault)
    \/ \E c \in FreeCallers : FreeObjectCommit(c)

SpecFreeObject == InitFree /\ [][NextFreeObject]_vars

\* the descriptor is freed only after all data: an object that is no longer
\* allocated has no data, and the final transaction is created only when the
\* data free returned 0 and left the object empty; a call that failed, in the
\* data free or in the assignment of the final transaction, leaves the
\* object allocated
DescriptorAfterData ==
    \A c \in FreeCallers :
       /\ ~dnodes[c].allocated => dnodes[c].alloc = {}
       /\ fr[c].otx <= 1
       /\ fr[c].pc \in {"object", "objtx"}
          => /\ fr[c].long_object
             /\ fr[c].ret = OK
             /\ dnodes[c].allocated
             /\ dnodes[c].alloc = {}
             /\ dnodes[c].maxblkid = 0
       /\ fr[c].pc \in {"top", "assigned", "wait"} => fr[c].otx = 0
       /\ (fr[c].pc = "done" /\ fr[c].long_object)
          => /\ fr[c].ret \in {EINTR, EIO, ENOSPC} => dnodes[c].allocated
             /\ fr[c].ret = OK <=> (~dnodes[c].allocated /\ fr[c].otx = 1)
             /\ fr[c].ret = EINTR => fr[c].otx = 0
             /\ fr[c].otx = 1 => dnodes[c].alloc = {}
             /\ fr[c].ret = ENOENT => fr[c].otx = 0 /\ fr[c].ntx = 0

\* the descriptor is freed by the step that commits the final transaction,
\* which frees no data; the data is freed by the transactions of the chunks
\* before the final transaction exists; a transaction that is not assigned
\* is aborted without a change to the object
DescriptorStep ==
    \A c \in FreeCallers :
       /\ dnodes'[c].allocated # dnodes[c].allocated
          => /\ fr[c].pc = "objtx"
             /\ fr'[c].pc = "done"
             /\ fr'[c].ret = OK
             /\ tc_count'[fr[c].txg] = tc_count[fr[c].txg] - 1
             /\ dnodes'[c].alloc = dnodes[c].alloc
       /\ dnodes'[c].alloc # dnodes[c].alloc
          => fr[c].pc = "assigned" /\ fr[c].otx = 0
       /\ fr[c].pc = "object" /\ fr'[c].pc = "done"
          => /\ dnodes' = dnodes
             /\ tc_count' = tc_count
             /\ fr'[c].ret # OK

\* C21: dmu_free_long_object frees all data first, in the transactions of
\* the chunks, and only then the descriptor in one final transaction of its
\* own; when the data free fails no final transaction is created and the
\* descriptor is not freed, and when the final transaction is not assigned
\* it is aborted and the object still exists
FreeLongObject == []DescriptorAfterData /\ [][DescriptorStep]_vars

\* an object of three allocated level-1 blocks was freed: two transactions
\* for the data and the final one
FreeLongObjectWitness ==
    \E c \in FreeCallers :
       /\ fr[c].pc = "done"
       /\ fr[c].long_object
       /\ fr[c].ret = OK
       /\ Cardinality(AllocatedL1s(fr[c].alloc0)) = FreeL1s
       /\ fr[c].ntx = 2
       /\ fr[c].otx = 1
       /\ ~dnodes[c].allocated


(***************************************************************************)
(* Partial-block writes: dmu_write on every range.                          *)
(***************************************************************************)
InitWrite ==
    /\ InitPipe
    /\ spa_freeze_txg = UINT64_MAX
    /\ InitDbufs
    /\ InitVop
    /\ pol = IdlePolicy
    /\ InitFreeIdle
    /\ InitHoldIdle
    /\ InitMoreIdle
    /\ InitPrefetchIdle
    /\ InitCloneIdle
    /\ wi \in {[in |-> i, done |-> FALSE, bufs |-> BufsBefore(i.cached),
                 ret |-> OK, fails |-> 0] :
                 i \in {x \in WriteInputs : x.offset + x.size <= WObjSize}}

NextWrite ==
    \/ DmuWrite
    \/ DmuWriteReadFail

SpecWrite == InitWrite /\ [][NextWrite]_vars

\* byte a of the object is inside the written range
Written(in, a) == a >= in.offset /\ a < in.offset + in.size
\* block blk has a byte inside the written range
Touched(in, blk) == \E j \in 0 .. (WSz - 1) : Written(in, (blk * WSz) + j)

\* C22: a write of [offset, offset + size) changes only the bytes inside the
\* range: every byte of a touched block outside the range keeps the value
\* it had before the write, the bytes inside are those of the caller, and
\* the buffers of the blocks outside the range are not dirtied
PartialWriteFrame ==
    wi.done
    => \A blk \in WBlocks :
          IF Touched(wi.in, blk)
          THEN /\ wi.bufs[blk].dirty
               /\ wi.bufs[blk].st = "DB_CACHED"
               /\ \A j \in 0 .. (WSz - 1) :
                     wi.bufs[blk].data[j] =
                        IF Written(wi.in, (blk * WSz) + j)
                        THEN NewByte(((blk * WSz) + j) - wi.in.offset)
                        ELSE OldByte((blk * WSz) + j)
          ELSE wi.bufs[blk] = BufsBefore(wi.in.cached)[blk]

\* a write inside the second block, whose buffer was not cached: the bytes
\* before and after the range hold what the block held, the other blocks
\* are not dirty
PartialWriteFrameWitness ==
    /\ wi.done
    /\ wi.in.offset = WSz + 1
    /\ wi.in.size = WSz - 2
    /\ wi.in.cached = {}
    /\ wi.bufs[1].data[0] = OldByte(WSz)
    /\ wi.bufs[1].data[1] = NewByte(0)
    /\ wi.bufs[1].data[WSz - 1] = OldByte((2 * WSz) - 1)
    /\ ~wi.bufs[0].dirty
    /\ ~wi.bufs[2].dirty


InitHold ==
    /\ InitPipe
    /\ spa_freeze_txg = UINT64_MAX
    /\ InitDbufs
    /\ InitVop
    /\ pol = IdlePolicy
    /\ InitFreeIdle
    /\ wi = IdleWrite
    /\ InitPrefetchIdle
    /\ InitCloneIdle
    /\ InitHoldIdle
    /\ InitMoreIdle

NextHold ==
    \/ \E t \in Holders, r \in HoldRanges : HoldBegin(t, r[1], r[2])
    \/ \E t \in Holders : HoldRead(t)
    \/ \E blk \in HoldBlocks, err \in {OK, EIO} : HoldReadDone(blk, err)
    \/ \E t \in Holders : HoldZioWait(t)
    \/ \E t \in Holders : HoldLoop(t)
    \/ \E t \in Holders : HoldRele(t)
    \/ \E blk \in HoldBlocks : HoldFillBegin(blk)
    \/ \E blk \in HoldBlocks : HoldFillDone(blk)
    \/ \E blk \in HoldBlocks : HoldEvict(blk)

SpecHold == InitHold /\ [][NextHold]_vars

\* every caller that slept on a buffer whose read failed returned EIO
WaitersGetEIO ==
    \A t \in Holders :
        holder[t].pc = "done" /\ holder[t].sawfail => holder[t].ret = EIO

\* a hold that returned 0 has every buffer of its range CACHED, and so are
\* the buffers the wait loop is past; a caller one of whose own reads failed
\* does not return 0
HoldSuccessCached ==
    \A t \in Holders :
        /\ holder[t].pc = "done" /\ holder[t].ret = OK
           => \A blk \in HoldBlocks :
                 Holds(t, blk) => hdb[blk].st = "DB_CACHED"
        /\ holder[t].pc \in {"loop", "cv_wait"}
           => \A blk \in HoldBlocks :
                 blk >= holder[t].blkid /\ blk < holder[t].blkid + holder[t].i
                 => hdb[blk].st = "DB_CACHED"
        /\ holder[t].pc = "done" /\ holder[t].zioerr # OK
           => holder[t].ret = EIO

\* a caller goes to sleep on a buffer only when it finds it in READ or FILL
\* and leaves the sleep only when the state of that buffer changes; a read
\* that fails leaves the buffer UNCACHED and its error in the zio of the
\* caller that started it; a caller that tests a buffer it finds UNCACHED
\* returns EIO
HoldWaitStep ==
    /\ \A t \in Holders :
        LET blk == holder[t].blkid + holder[t].i
        IN  /\ holder[t].pc # "cv_wait" /\ holder'[t].pc = "cv_wait"
               => /\ holder[t].pc = "loop"
                  /\ hdb[blk].st \in {"DB_READ", "DB_FILL"}
            /\ holder[t].pc = "cv_wait" /\ holder'[t] # holder[t]
               => /\ holder'[t].pc = "loop"
                  /\ hdb'[blk].st # hdb[blk].st
            /\ holder[t].pc = "loop" /\ holder'[t] # holder[t]
                  /\ hdb[blk].st = "DB_UNCACHED"
               => holder'[t].pc = "done" /\ holder'[t].ret = EIO
    /\ \A blk \in HoldBlocks :
        /\ hdb[blk].st = "DB_READ" /\ hdb'[blk].st # "DB_READ"
           => /\ hdb'[blk].st \in {"DB_CACHED", "DB_UNCACHED"}
              /\ hdb'[blk].st = "DB_UNCACHED"
                 => holder'[hdb[blk].rd].zioerr = EIO
              /\ \A t \in Holders : ~CvWaits(t, blk)'
        /\ hdb[blk].st = "DB_CACHED" /\ hdb'[blk].st # "DB_CACHED"
           => \A t \in Holders : ~Holds(t, blk)

\* C24: a reading hold returns 0 only with every buffer of the range
\* CACHED; a caller that finds a buffer in READ or FILL sleeps on its
\* condition variable until the state changes; a failed read leaves the
\* buffer UNCACHED, fails the hold that started it, and fails every sleeper
\* that finds the buffer UNCACHED when it runs again
ReadingHold == []HoldSuccessCached /\ [][HoldWaitStep]_vars

\* a caller slept on a buffer whose read failed and returned EIO, and
\* another caller has started a new read of the buffer
ReadingHoldWitness ==
    \E t, u \in Holders :
        /\ t # u
        /\ holder[t].pc = "done"
        /\ holder[t].sawfail
        /\ holder[t].ret = EIO
        /\ hdb[holder[t].blkid + holder[t].i].st = "DB_READ"
        /\ hdb[holder[t].blkid + holder[t].i].rd = u


(***************************************************************************)
(* dmu_prefetch_wait and a signal.                                         *)
(***************************************************************************)
InitFuncs ==
    /\ InitPipe
    /\ spa_freeze_txg = UINT64_MAX
    /\ InitDbufs
    /\ InitVop
    /\ pol = IdlePolicy
    /\ InitFreeIdle

InitPrefetchWait ==
    /\ InitFuncs
    /\ InitFuncsIdle

NextPrefetchWait ==
    \/ \E o \in PrefetchWaitOffsets, n \in PrefetchWaitSizes,
          holderr \in {OK, ENOENT} : PrefetchWaitBegin(o, n, holderr)
    \/ PrefetchWaitIssue
    \/ \E blk \in pw.issued : PrefetchDone(blk)
    \/ \E sig \in BOOLEAN : PrefetchWaitChunkDone(sig)
    \/ PrefetchWaitReturn

SpecPrefetchWait == InitPrefetchWait /\ [][NextPrefetchWait]_vars

\* the blocks of the bytes [from, to)
PfBlocksOf(from, to) ==
    IF to <= from THEN {}
    ELSE PfWhichblock(from) .. PfWhichblock(to - 1)

\* a call that found its object and returns EINTR has left a part of the
\* range without prefetch, and it returns 0 exactly when the whole range was
\* prefetched
EintrProperPrefix ==
    pw.pc = "done" /\ pw.err # ENOENT
    => /\ pw.err = EINTR => pw.size > 0
       /\ pw.err = OK
          <=> pw.read = PfBlocksOf(pw.offset0, pw.offset0 + pw.size0)

\* C25: dmu_prefetch_wait prefetches whole chunks from the start of the
\* range: when it returns EINTR the blocks read are those of the first k
\* chunks, k >= 1, which may be the whole range; when it returns 0 the whole
\* range was read; the only errors are EINTR and the error of dnode_hold
PrefetchWaitPrefix ==
    /\ pw.pc \in {"chunk", "wait", "done"}
       => pw.offset + pw.size = pw.offset0 + pw.size0
    /\ pw.pc = "chunk" => pw.read = PfBlocksOf(pw.offset0, pw.offset)
    /\ pw.pc = "wait"
       => pw.read \cup pw.issued =
             PfBlocksOf(pw.offset0, pw.offset + Min(pw.size, chunksize))
    /\ pw.pc = "done" /\ pw.err # ENOENT
       => /\ pw.read = PfBlocksOf(pw.offset0, pw.offset)
          /\ pw.issued = {}
          /\ pw.size = 0 \/ (pw.offset - pw.offset0) % chunksize = 0
          /\ pw.err \in {OK, EINTR}
          /\ pw.err = OK => pw.size = 0
          /\ pw.err = EINTR => pw.offset > pw.offset0
    /\ pw.pc = "done" /\ pw.err = ENOENT => pw.read = {}

\* a call of more than one chunk returned EINTR after its first chunk
PrefetchWaitPrefixWitness ==
    /\ pw.pc = "done"
    /\ pw.err = EINTR
    /\ pw.size0 = 2 * chunksize
    /\ pw.size = chunksize
    /\ pw.read = PfBlocksOf(pw.offset0, pw.offset0 + chunksize)


(***************************************************************************)
(* The byte budget of one prefetch call.                                   *)
(***************************************************************************)
InitPrefetch ==
    /\ InitFuncs
    /\ wi = IdleWrite
    /\ InitHoldIdle
    /\ InitMoreIdle
    /\ pw = IdlePrefetchWait
    /\ InitCloneIdle
    /\ pf \in {[pc |-> "call", in |-> i, out |-> NoPrefetch] :
                 i \in {x \in PrefetchInputs :
                          /\ x.offset <= PrefetchObjSize(x.dn) + 1
                          /\ x.len <= PrefetchObjSize(x.dn) + 1}}

NextPrefetch == DmuPrefetch

SpecPrefetch == InitPrefetch /\ [][NextPrefetch]_vars

\* ceil(dmu_prefetch_max / blocksize)
PrefetchBudget(blocksize) ==
    (dmu_prefetch_max + (blocksize - 1)) \div blocksize

\* the size of the blocks of a level, and the last block of a level
PfLevelBlkSz(dn, level) ==
    IF level = 0 THEN dn.dn_datablksz ELSE 2 ^ dn_indblkshift
PfLastBlk(dn, level) == dn.dn_maxblkid \div (2 ^ (level * PfIbps))

\* C26: one call of dmu_prefetch_by_dnode asks for at most
\* ceil(dmu_prefetch_max / blocksize) blocks at the requested level and at
\* most ceil(dmu_prefetch_max / indirect blocksize) blocks at the higher
\* level2, whatever the length; it asks for nothing when the offset is at or
\* past the end of the object, and for no block past the last of its level
PrefetchCapped ==
    pf.pc = "done"
    => LET dn == pf.in.dn
           o == pf.out
       IN  /\ o.level = pf.in.level
           /\ o.end - o.start >= 0
           /\ o.end - o.start
                 <= PrefetchBudget(PfLevelBlkSz(dn, pf.in.level))
           /\ o.end2 - o.start2 >= 0
           /\ o.end2 - o.start2 <= PrefetchBudget(2 ^ dn_indblkshift)
           /\ o.end2 > o.start2 => o.level2 > o.level
           /\ pf.in.offset >= PrefetchObjSize(dn)
              => o.end = o.start /\ o.end2 = o.start2
           /\ o.end > o.start => o.end - 1 <= PfLastBlk(dn, o.level)
           /\ o.end2 > o.start2 => o.end2 - 1 <= PfLastBlk(dn, o.level2)
           /\ o.end > o.start
              => o.start = (IF dn.dn_datablkshift # 0
                            THEN PfWhichblockLevel(o.level, pf.in.offset)
                            ELSE 0)

\* a prefetch of a whole object of many blocks: the budget's worth of data
\* blocks, and one indirect block of a level above for the rest
PrefetchCappedWitness ==
    /\ pf.pc = "done"
    /\ pf.in.level = 0
    /\ pf.in.offset = 0
    /\ pf.in.dn.dn_maxblkid = PfMaxBlk
    /\ pf.in.len = (PfMaxBlk + 1) * PfBlkSz
    /\ pf.out.end - pf.out.start = PrefetchBudget(PfBlkSz)
    /\ pf.out.end < PfMaxBlk
    /\ pf.out.end2 - pf.out.start2 = 1
    /\ pf.out.level2 > 1


(***************************************************************************)
(* Cloning block pointers of another block size.                           *)
(***************************************************************************)
InitClone ==
    /\ InitFuncs
    /\ wi = IdleWrite
    /\ InitHoldIdle
    /\ InitMoreIdle
    /\ InitPrefetchIdle
    /\ rb = IdleReadBps
    /\ \E bps \in [WBlocks -> CloneBps], bufs \in [WBlocks -> CloneBufs] :
          bc = [IdleClone EXCEPT !.pc = "call", !.bps = bps,
                                 !.before = bufs, !.bufs = bufs]

NextClone ==
    \/ CloneHold
    \/ CloneCheck
    \/ CloneStep
    \/ CloneOut

SpecClone == InitClone /\ [][NextClone]_vars

\* some block pointer of the range is no hole and has a logical size that is
\* not the size of the destination buffer
CloneMismatch ==
    \E i \in WBlocks :
        ~BP_IS_HOLE(bc.bps[i].bp) /\ bc.bps[i].lsize # BlkSz

\* C27: when a block pointer of the range is no hole and its logical size
\* differs from the size of the buffer, dmu_brt_clone returns EXDEV, and at
\* no point of the call a buffer or a dirty record has changed or a pending
\* BRT entry was added; the holds are released at the return.  Without such
\* a block pointer it returns 0 with every buffer cloned in the group of the
\* transaction
CloneAllOrNothing ==
    /\ bc.pc # "idle" /\ CloneMismatch
       => /\ bc.bufs = bc.before
          /\ bc.brt_pending = <<>>
          /\ bc.error \in {OK, EXDEV}
          /\ bc.pc \in {"out", "done"} => bc.error = EXDEV
    /\ bc.pc = "done" => bc.holds = 0
    /\ bc.pc \in {"check", "clone", "out"} => bc.holds = WNBlk
    /\ bc.pc = "done" /\ ~CloneMismatch
       => /\ bc.error = OK
          /\ \A i \in WBlocks :
                /\ bc.bufs[i].dirty # <<>>
                /\ Head(bc.bufs[i].dirty).dr_txg = CloneTxg
                /\ Head(bc.bufs[i].dirty).dr_brtwrite
                /\ (\E k \in DOMAIN bc.brt_pending : bc.brt_pending[k] = i)
                   <=> ~BP_IS_HOLE(bc.bps[i].bp) /\ ~bc.bps[i].embedded

\* a call whose first block pointer fits a buffer that is dirty in the
\* group of the transaction and whose last block pointer has another size
\* has returned EXDEV
CloneAllOrNothingWitness ==
    /\ bc.pc = "done"
    /\ bc.error = EXDEV
    /\ ~BP_IS_HOLE(bc.bps[0].bp) /\ bc.bps[0].lsize = BlkSz
    /\ bc.before[0].dirty # <<>>
    /\ Head(bc.before[0].dirty).dr_txg = CloneTxg
    /\ ~BP_IS_HOLE(bc.bps[WNBlk - 1].bp)
    /\ bc.bps[WNBlk - 1].lsize # BlkSz
    /\ bc.bufs = bc.before
    /\ bc.holds = 0


(***************************************************************************)
(* Block pointers handed out for cloning.                                  *)
(***************************************************************************)
InitReadBps ==
    /\ InitFuncs
    /\ wi = IdleWrite
    /\ InitHoldIdle
    /\ InitMoreIdle
    /\ InitPrefetchIdle
    /\ bc = IdleClone
    /\ \E bufs \in [WBlocks -> ReadBpsBufs],
          freeze \in {UINT64_MAX, CloneOldTxg} :
          rb = [IdleReadBps EXCEPT !.pc = "call", !.bufs = bufs,
                                   !.freeze = freeze]

NextReadBps == DmuReadL0Bps

SpecReadBps == InitReadBps /\ [][NextReadBps]_vars

\* the buffer has a dirty record that is no clone
HasPlainDirty(d) ==
    \E k \in 1 .. Len(d.dirty) : ~d.dirty[k].dr_brtwrite
\* the newest dirty record of the buffer is a clone
NewestIsClone(d) == d.dirty # <<>> /\ Head(d.dirty).dr_brtwrite
\* the block pointer the loop looks at
ReadBpsUsed(d) ==
    IF NewestIsClone(d) THEN Head(d.dirty).dr_overridden_by ELSE d.bp

DirtyTxgs(b) ==
    [i \in 1 .. Len(db_dirty_records[b]) |-> db_dirty_records[b][i].dr_txg]

\* no two records of a buffer are of the same group, and every record is of
\* an older group than all the records before it in the list
DirtyOnePerTxg ==
    \A b \in Blocks :
        /\ Cardinality({DirtyTxgs(b)[i] : i \in 1 .. Len(DirtyTxgs(b))})
              = Len(DirtyTxgs(b))
        /\ \A i, j \in 1 .. Len(DirtyTxgs(b)) :
              i < j => DirtyTxgs(b)[i] > DirtyTxgs(b)[j]
        /\ \A i \in 1 .. Len(DirtyTxgs(b)) :
              DirtyTxgs(b)[i] \in Txgs /\ DirtyTxgs(b)[i] > spa_last_synced_txg

\* a step that changes the list of a buffer adds one record, of the group
\* of a transaction that is assigned, or removes one; the record a clone
\* leaves at the head is of the group of its transaction (the ASSERT3U of
\* dmu_brt_clone); a write that dmu_sync issues for group T finds no list
\* successor of T's record or one of an older group (the ASSERT of dmu_sync)
DirtyListStep ==
    \A b \in Blocks :
        /\ DirtyTxgs(b)' # DirtyTxgs(b)
           => \/ \E t \in Txgs :
                    /\ \A i \in 1 .. Len(DirtyTxgs(b)) : DirtyTxgs(b)[i] # t
                    /\ \E w \in Writers :
                          wr[w].txg = t /\ wr[w].pc \in {"will", "clone"}
                    /\ {DirtyTxgs(b)'[i] : i \in 1 .. Len(DirtyTxgs(b)')}
                          = {DirtyTxgs(b)[i] : i \in 1 .. Len(DirtyTxgs(b))}
                               \cup {t}
              \/ \E t \in Txgs :
                    /\ {DirtyTxgs(b)[i] : i \in 1 .. Len(DirtyTxgs(b))}
                          = {DirtyTxgs(b)'[i] : i \in 1 .. Len(DirtyTxgs(b)')}
                               \cup {t}
                    /\ Len(DirtyTxgs(b)') = Len(DirtyTxgs(b)) - 1
        /\ \A w \in Writers :
              (wr[w].pc = "clone" /\ wr'[w] # wr[w] /\ WBlk(wr[w]) = b)
              => /\ db_dirty_records'[b] # <<>>
                 /\ Head(db_dirty_records'[b]).dr_txg = wr[w].txg
                 /\ Head(db_dirty_records'[b]).dr_brtwrite
        /\ \A io \in zios' \ zios :
              (io.blk = b /\ ~io.late)
              => LET dr == dbuf_find_dirty_eq(db_dirty_records[b], io.txg)
                 IN  /\ dr # 0
                     /\ \A k \in (dr + 1) .. Len(db_dirty_records[b]) :
                           db_dirty_records[b][k].dr_txg < io.txg

\* C29: a buffer has at most one dirty record per transaction group and its
\* list is strictly ordered by group, newest first, through every sequence
\* of writes, clones, calls of dmu_sync and syncs of groups
DirtyRecordsOrdered == []DirtyOnePerTxg /\ [][DirtyListStep]_vars

\* a buffer that was cloned in one group and written in the next, with the
\* record of the write taken by dmu_sync
DirtyRecordsOrderedWitness ==
    \E b \in Blocks :
        /\ Len(db_dirty_records[b]) >= 2
        /\ db_dirty_records[b][2].dr_brtwrite
        /\ ~db_dirty_records[b][1].dr_brtwrite
        /\ db_dirty_records[b][1].dr_override_state = "DR_IN_DMU_SYNC"

(***************************************************************************)
(* A forced sync that completes as a nopwrite.                             *)
(***************************************************************************)
\* the write dmu_sync would issue, in any state and for any arguments, has
\* nopwrite on only if the policy has it on, the record of the group has no
\* list successor and the block is not freed in its dnode; a write in flight
\* with nopwrite on carries the block pointer the buffer still has
NopwriteOnlyWhenStable ==
    /\ \A b \in Blocks, t \in Txgs, zp_nop \in PolicyNopwrites,
          freed \in BOOLEAN, fault \in Faults :
          (~WriteLocked(b) /\ t <= tx_open_txg)
          => \A io \in dmu_sync(b, t, zp_nop, freed, fault).io :
                (~io.late /\ io.nopwrite)
                => /\ zp_nop
                   /\ ~freed
                   /\ list_next(db_dirty_records[b],
                          dbuf_find_dirty_eq(db_dirty_records[b], t)) = 0
                   /\ io.bp_orig = db_blkptr[b]
    /\ \A io \in zios :
          (~io.late /\ io.nopwrite)
          => /\ io.bp_orig = db_blkptr[io.blk]
             /\ list_next(db_dirty_records[io.blk],
                    dbuf_find_dirty_eq(db_dirty_records[io.blk], io.txg)) = 0

\* the done callback of a write that completed as a nopwrite leaves in the
\* record the block pointer of the buffer, which the step does not change:
\* VERIFY(BP_EQUAL(bp, db->db_blkptr)) holds
NopwriteDoneStep ==
    \A io \in zios \ zios' :
        (~io.late /\ call'.op = "done" /\ call'.ret = OK)
        => LET list == db_dirty_records'[io.blk]
               dr == dbuf_find_dirty_eq(list, io.txg)
           IN  /\ dr # 0
               /\ list[dr].dr_nopwrite
                  => /\ io.nopwrite
                     /\ BP_EQUAL(list[dr].dr_overridden_by, db_blkptr[io.blk])
                     /\ BP_EQUAL(list[dr].dr_overridden_by, io.bp_orig)
                     /\ db_blkptr'[io.blk] = db_blkptr[io.blk]
                     /\ ~BP_IS_HOLE(db_blkptr[io.blk])

\* C30: dmu_sync leaves nopwrite on only for a record without list successor
\* of a block that is not freed, so a forced sync that completes as a
\* nopwrite produced the block pointer the buffer has on disk, unchanged
\* since dmu_sync copied it
NopwriteKeepsBlkptr == []NopwriteOnlyWhenStable /\ [][NopwriteDoneStep]_vars

\* a forced sync has completed as a nopwrite
NopwriteKeepsBlkptrWitness ==
    /\ call.op = "done"
    /\ call.ret = OK
    /\ LET list == db_dirty_records[call.blk]
           dr == dbuf_find_dirty_eq(list, call.txg)
       IN  /\ dr # 0
           /\ list[dr].dr_nopwrite
           /\ list[dr].dr_override_state = "DR_OVERRIDDEN"
           /\ list[dr].dr_overridden_by = db_blkptr[call.blk]

(***************************************************************************)
(* A forced sync of a group that is syncing (dmu_sync_late_arrival).        *)
(***************************************************************************)
\* the late writes in flight under a transaction of txg t
LateWrites(t) == {io \in zios : io.late /\ io.tx = t}

\* every late write in flight keeps its transaction assigned
LateHoldsTx == \A t \in Txgs : tc_count[t] >= Cardinality(LateWrites(t))

\* a call of dmu_sync for a txg that is syncing and not yet synced
LateSyncCall ==
    /\ call'.op = "dmu_sync"
    /\ call'.txg > spa_last_synced_txg
    /\ call'.txg <= spa_syncing_txg

\* what the late-arrival path does, and what its done callback does
LateArrivalStep ==
    /\ LateSyncCall
       => /\ db_dirty_records' = db_dirty_records
          /\ db_blkptr' = db_blkptr
          /\ call'.ret \in {OK, EIO}
          /\ call'.ret = OK
             => \E io \in zios' \ zios :
                   /\ zios' = zios \cup {io}
                   /\ io.late
                   /\ ~io.nopwrite
                   /\ io.tx = tx_open_txg
                   /\ io.tx > spa_syncing_txg
                   /\ <<io.blk, io.txg>> = <<call'.blk, call'.txg>>
                   /\ tc_count' = [tc_count EXCEPT ![io.tx] = @ + 1]
          /\ call'.ret = EIO
             => /\ zios' = zios
                /\ tc_count' = tc_count
    /\ (call'.op = "done" /\ DoneZio.late)
       => /\ zios' = zios \ {DoneZio}
          /\ tc_count' = [tc_count EXCEPT ![DoneZio.tx] = @ - 1]
          /\ call'.zio_free = (call'.ret = OK)
          /\ db_dirty_records' = db_dirty_records
          /\ db_blkptr' = db_blkptr
    /\ call'.op = "done" => \E io \in zios : zios' = zios \ {io}

\* C31: a dmu_sync for a txg that is syncing and not yet synced takes the
\* late-arrival path: the dirty records and their override state stay as
\* they are, the data is written as a separate block under a new transaction
\* of the open txg with nopwrite off, the done callback frees that block
\* when the write succeeded and commits the transaction once; when the
\* assignment fails the call returns EIO with no transaction left assigned,
\* no write issued and so no done callback
LateArrival == []LateHoldsTx /\ [][LateArrivalStep]_vars

\* the done callback of a successful late write ran while the txg of the
\* call is still syncing and the block is still dirty in it
LateArrivalWitness ==
    /\ call.op = "done"
    /\ "zio_free" \in DOMAIN call
    /\ call.zio_free
    /\ call.txg = spa_syncing_txg
    /\ call.txg <= spa_freeze_txg
    /\ HasDirty(call.blk, call.txg)

(***************************************************************************)
(* Whole and partial blocks of a write.                                    *)
(***************************************************************************)
\* every byte of block blk is inside the written range
Covered(in, blk) == \A j \in 0 .. (WSz - 1) : Written(in, (blk * WSz) + j)

\* the last block the write touches
WLast(in) == (WFirst(in) + WNblks(in)) - 1

\* C32: after a write, a block the range covers entirely was filled without
\* a read (dmu_buf_will_fill, then dmu_buf_fill_done), a block the range
\* covers in part was made CACHED with its old content by dmu_buf_will_dirty
\* (read from disk exactly when it was not cached) before the overlay, a
\* block outside the range was not called on, and a block covered in part is
\* the first or the last block of the write
WholeOrPartialBlock ==
    wi.done
    => \A blk \in WBlocks :
          LET db == wi.bufs[blk]
          IN  /\ Covered(wi.in, blk)
                 => /\ db.calls = <<"dmu_buf_will_fill", "dmu_buf_fill_done">>
                    /\ ~db.read
                    /\ db.st = "DB_CACHED"
              /\ (Touched(wi.in, blk) /\ ~Covered(wi.in, blk))
                 => /\ db.calls = <<"dmu_buf_will_dirty">>
                    /\ db.read = (blk \notin wi.in.cached)
                    /\ db.st = "DB_CACHED"
                    /\ \A j \in 0 .. (WSz - 1) :
                          ~Written(wi.in, (blk * WSz) + j)
                          => db.data[j] = OldByte((blk * WSz) + j)
                    /\ blk \in {WFirst(wi.in), WLast(wi.in)}
              /\ ~Touched(wi.in, blk) => db.calls = <<>>

\* a write over three uncached blocks that covers the middle one only: the
\* first and the last block were read, the middle one was filled
WholeOrPartialBlockWitness ==
    /\ wi.done
    /\ wi.in.cached = {}
    /\ wi.in.offset = 1
    /\ wi.in.size = (2 * WSz) + 1
    /\ wi.bufs[0].read
    /\ ~wi.bufs[1].read
    /\ wi.bufs[1].calls = <<"dmu_buf_will_fill", "dmu_buf_fill_done">>
    /\ wi.bufs[2].read

(***************************************************************************)
(* The wait of dmu_prefetch_wait_by_dnode.                                  *)
(***************************************************************************)
\* dbuf_prefetch_impl calls the callback of every block it was asked for,
\* and the waiter runs once it was woken
SpecPrefetchWaitLive ==
    /\ SpecPrefetchWait
    /\ WF_vars(\E blk \in pw.issued : PrefetchDone(blk))
    /\ WF_vars(\E sig \in BOOLEAN : PrefetchWaitChunkDone(sig))

\* the blocks of the chunk the call waits for
PfChunkBlocks ==
    PfBlocksOf(pw.offset, pw.offset + Min(pw.size, chunksize))

\* while the call waits the counter is the number of blocks of the chunk
\* whose callback did not run yet
PendingCounts ==
    pw.pc = "wait"
    => /\ pw.dpa_pending_io = Cardinality(pw.issued)
       /\ pw.dpa_pending_io >= 0
       /\ pw.issued \subseteq PfChunkBlocks
       /\ PfChunkBlocks \ pw.issued \subseteq pw.read

\* the counter starts at the number of blocks of the chunk, a callback takes
\* one from it, and the wait ends only at zero, with every callback run
PendingStep ==
    /\ (pw.pc = "chunk" /\ pw'.pc = "wait")
       => /\ pw'.dpa_pending_io = Cardinality(PfChunkBlocks)
          /\ pw'.dpa_pending_io > 0
    /\ (pw.pc = "wait" /\ pw'.pc = "wait")
       => /\ pw.dpa_pending_io > 0
          /\ pw'.dpa_pending_io = pw.dpa_pending_io - 1
          /\ \E blk \in pw.issued : pw'.issued = pw.issued \ {blk}
    /\ (pw.pc = "wait" /\ pw'.pc # "wait")
       => /\ pw.dpa_pending_io = 0
          /\ PfChunkBlocks \subseteq pw.read

\* C33: dmu_prefetch_wait_by_dnode returns only after the callback of every
\* level-0 block of its chunk has run: the counter starts at the number of
\* blocks of the chunk, each callback takes exactly one from it, it never
\* goes below zero, and the wait ends, given that every callback comes
PrefetchWaitCompletes ==
    /\ []PendingCounts
    /\ [][PendingStep]_vars
    /\ (pw.pc = "wait") ~> (pw.pc # "wait")

\* the wait for a chunk of more than one block is over: the counter is zero
\* and every block of the chunk had its callback
PrefetchWaitCompletesWitness ==
    /\ pw.pc = "wait"
    /\ pw.dpa_pending_io = 0
    /\ Cardinality(PfChunkBlocks) > 1
    /\ PfChunkBlocks \subseteq pw.read

(***************************************************************************)
(* What a successful dmu_brt_clone leaves.                                  *)
(***************************************************************************)
\* how often block i was handed to brt_pending_add
PendingAdds(i) ==
    Cardinality({k \in DOMAIN bc.brt_pending : bc.brt_pending[k] = i})

\* the newest dirty record of destination block i
CloneHead(i) == Head(bc.bufs[i].dirty)

\* every record of a successful clone carries a block pointer whose logical
\* birth is the group of the transaction
CloneBirthAlways ==
    bc.pc = "done" /\ bc.error = OK
    => \A i \in WBlocks :
          BP_GET_LOGICAL_BIRTH(CloneHead(i).dr_overridden_by) = CloneTxg

\* C34: after a successful dmu_brt_clone every block of the destination has
\* one dirty record in the group of the transaction, at the head of its
\* list, that is DR_OVERRIDDEN and a clone write and carries the block
\* pointer handed in, with its logical birth set to the group of the
\* transaction unless it is a hole of logical birth 0, which is carried as
\* it is; brt_pending_add was called once for every pointer that is neither
\* a hole nor embedded and not at all for the others; the buffer holds no
\* data (DB_NOFILL) and its on-disk block pointer is the one it had
CloneRecords ==
    bc.pc = "done" /\ bc.error = OK
    => \A i \in WBlocks :
          LET bp == bc.bps[i].bp
              dr == CloneHead(i)
          IN  /\ bc.bufs[i].dirty # <<>>
              /\ dr.dr_txg = CloneTxg
              /\ \A k \in 2 .. Len(bc.bufs[i].dirty) :
                    bc.bufs[i].dirty[k].dr_txg < CloneTxg
              /\ dr.dr_override_state = "DR_OVERRIDDEN"
              /\ dr.dr_brtwrite
              /\ dr.dr_overridden_by =
                    IF BP_IS_HOLE(bp) /\ BP_GET_LOGICAL_BIRTH(bp) = 0
                    THEN bp
                    ELSE [bp EXCEPT !.lbirth = CloneTxg]
              /\ PendingAdds(i) =
                    IF ~BP_IS_HOLE(bp) /\ ~bc.bps[i].embedded THEN 1 ELSE 0
              /\ bc.bufs[i].st = "DB_NOFILL"
              /\ bc.bufs[i].bp = bc.before[i].bp

\* a successful clone of a written block, an embedded block and a hole of
\* logical birth 0: one pending reference, and the hole keeps its birth
CloneRecordsWitness ==
    /\ bc.pc = "done"
    /\ bc.error = OK
    /\ ~BP_IS_HOLE(bc.bps[0].bp) /\ ~bc.bps[0].embedded
    /\ bc.bps[1].embedded
    /\ bc.bps[2].bp = HoleBP
    /\ bc.brt_pending = <<0>>
    /\ CloneHead(0).dr_overridden_by.lbirth = CloneTxg
    /\ CloneHead(2).dr_overridden_by = HoleBP
    /\ bc.before[0].dirty # <<>>

(***************************************************************************)
(* dmu_offset_next on an object other threads keep dirtying.                *)
(***************************************************************************)
InitOffsetNext ==
    /\ InitFuncs
    /\ wi = IdleWrite
    /\ InitHoldIdle
    /\ InitPrefetchIdle
    /\ InitCloneIdle
    /\ on \in {[IdleOffsetNext EXCEPT !.last_synced = t] : t \in 0 .. 1}
    /\ ha = IdleHoldArray
    /\ bh = IdleBonus
    /\ sp = IdleFacade

NextOffsetNext ==
    \/ \E sync \in BOOLEAN : OffsetNextCall(sync)
    \/ \E holderr \in {OK, ENOENT} : OffsetNextHold(holderr)
    \/ \E dirty \in BOOLEAN, nexterr \in {OK, ESRCH} :
          OffsetNextCheck(dirty, nexterr)
    \/ OffsetNextSynced
    \/ OffsetNextWaitDone
    \/ OffsetNextReturn

SpecOffsetNext == InitOffsetNext /\ [][NextOffsetNext]_vars

\* the thread of the call runs, and the pool syncs the groups a caller of
\* txg_wait_synced waits for
SpecOffsetNextLive ==
    /\ SpecOffsetNext
    /\ WF_vars(\E holderr \in {OK, ENOENT} : OffsetNextHold(holderr))
    /\ WF_vars(\E dirty \in BOOLEAN, nexterr \in {OK, ESRCH} :
                  OffsetNextCheck(dirty, nexterr))
    /\ WF_vars(OffsetNextSynced)
    /\ WF_vars(OffsetNextWaitDone)

\* offsets are reported for a clean object only, the restarts are bounded,
\* and the lock and the hold are taken and released together
OffsetNextSafe ==
    /\ on.reported => ~on.dirty /\ on.pc = "done" /\ on.err \in {OK, ESRCH}
    /\ (on.pc = "done" /\ on.dirty) => on.err = EBUSY /\ ~on.reported
    /\ (on.pc = "done" /\ on.dirty /\ ~on.sync) => on.restarts = 0
    /\ on.restarts <= TXG_CONCURRENT_STATES
    /\ on.pc = "wait" => on.txg <= on.maxtxg
    /\ on.pc \in {"idle", "restart", "wait", "done"}
       => on.holds = 0 /\ on.lock = "none"
    /\ on.pc = "locked" => on.holds = 1 /\ on.lock = "reader"

\* C35: dmu_offset_next reports no offsets for an object it found dirty:
\* without zfs_dmu_offset_next_sync it returns EBUSY without waiting; with
\* it, it waits for a group to sync and restarts, at most
\* TXG_CONCURRENT_STATES times, and then returns EBUSY; every call returns,
\* and whenever it is not between its hold and its release it holds neither
\* the structural lock nor the dnode
OffsetNextTerminates ==
    /\ []OffsetNextSafe
    /\ (on.pc # "idle") ~> (on.pc = "done")

\* a call gave up with EBUSY after TXG_CONCURRENT_STATES restarts that all
\* found the object dirty again
OffsetNextTerminatesWitness ==
    /\ on.pc = "done"
    /\ on.err = EBUSY
    /\ on.sync
    /\ on.restarts = TXG_CONCURRENT_STATES
    /\ on.holds = 0
    /\ on.lock = "none"

(***************************************************************************)
(* The chunks of dmu_free_long_range, and its termination.                  *)
(***************************************************************************)
\* one caller of dmu_free_long_range and the pipeline
FreeOne == "f1"

NextFreeOne ==
    \/ TxgQuiesce
    \/ TxgStartSync
    \/ TxgSyncDone
    \/ \E r \in FreeRanges(FreeOne) : FreeBegin(FreeOne, r[1], r[2])
    \/ \E unmounting \in BOOLEAN, fault \in {"none", "chunk", "assign"} :
          FreeAssign(FreeOne, unmounting, fault)
    \/ FreeChunk(FreeOne)
    \/ FreeWaitOpenDone(FreeOne)

\* the thread of the caller runs, the groups move through the pipeline
SpecFreeLive ==
    /\ InitFree
    /\ [][NextFreeOne]_vars
    /\ WF_vars(TxgQuiesce)
    /\ WF_vars(TxgStartSync)
    /\ WF_vars(TxgSyncDone)
    /\ WF_vars(\E unmounting \in BOOLEAN,
                  fault \in {"none", "chunk", "assign"} :
                  FreeAssign(FreeOne, unmounting, fault))
    /\ WF_vars(FreeChunk(FreeOne))
    /\ WF_vars(FreeWaitOpenDone(FreeOne))

\* the chunks freed so far are not empty and follow each other downwards
\* from the end of the clipped range to where the rest of the range ends
ChunksDescend ==
    \A c \in FreeCallers :
       LET r == fr[c]
           ch == r.chunks
       IN  r.pc # "idle"
           => /\ \A k \in DOMAIN ch : ch[k][2] > 0 /\ ch[k][1] >= r.offset
              /\ ch # <<>> => ch[1][1] + ch[1][2] = r.offset + r.len1
              /\ \A k \in 2 .. Len(ch) : ch[k][1] + ch[k][2] = ch[k - 1][1]
              /\ \A j, k \in DOMAIN ch :
                    j < k => ch[k][1] + ch[k][2] <= ch[j][1]
              /\ r.offset + r.length =
                    IF ch = <<>> THEN r.offset + r.len1 ELSE ch[Len(ch)][1]

\* the length handed in, clipped to the size of the object
ClippedLength(r, object_size) ==
    IF r.offset >= object_size THEN 0
    ELSE IF r.len0 = DMU_OBJECT_END \/ r.offset + r.len0 > object_size
    THEN object_size - r.offset ELSE r.len0

\* a call that returned 0 freed exactly its clipped range
ChunksCover ==
    \A c \in FreeCallers :
       (fr[c].pc = "done" /\ fr[c].ret = OK)
       => /\ fr[c].length = 0
          /\ fr[c].chunks = <<>> <=> fr[c].len1 = 0
          /\ fr[c].chunks # <<>>
             => fr[c].chunks[Len(fr[c].chunks)][1] = fr[c].offset

\* a call begins with its range clipped to the size of the object and no
\* chunk freed; an iteration that is not throttled shortens what is left, a
\* throttled one leaves it
ChunkShortens ==
    \A c \in FreeCallers :
       /\ (fr[c].pc \in {"idle", "done"} /\ fr'[c] # fr[c])
          => /\ fr'[c].len1 =
                   ClippedLength(fr'[c],
                                 (dnodes[c].maxblkid + 1) * dn_datablksz)
             /\ fr'[c].length = fr'[c].len1
             /\ fr'[c].chunks = <<>>
       /\ (fr[c].pc = "assigned" /\ fr'[c] # fr[c])
          => IF FreeThrottled(fr[c])
             THEN /\ fr'[c].length = fr[c].length
                  /\ fr'[c].chunks = fr[c].chunks
             ELSE /\ fr'[c].length < fr[c].length
                  /\ Len(fr'[c].chunks) = Len(fr[c].chunks) + 1

\* caller c waits for a group that does not open within the groups looked at
FreeNoGroup(c) == fr[c].pc = "wait" /\ fr[c].waitfor > MaxTxg

\* C36: the chunks dmu_free_long_range frees are not empty, pairwise
\* disjoint and issued downwards from the end of the range, each beginning
\* where the rest of the range ends; an iteration that is not throttled
\* shortens the rest; a call that returns 0 has freed exactly the range
\* clipped to the size of the object; and every call returns once the group
\* a throttled caller waits for has opened
ChunksTerminate ==
    /\ [](ChunksDescend /\ ChunksCover)
    /\ [][ChunkShortens]_vars
    /\ \A c \in FreeCallers :
          (fr[c].pc \in {"top", "assigned", "wait"})
             ~> (fr[c].pc = "done" \/ FreeNoGroup(c))

\* a call over three allocated level-1 blocks returned 0 after it was
\* throttled: two chunks, the second below the first
ChunksTerminateWitness ==
    \E c \in FreeCallers :
       /\ fr[c].pc = "done"
       /\ fr[c].ret = OK
       /\ Len(fr[c].chunks) = 2
       /\ fr[c].chunks[2][1] = fr[c].offset
       /\ fr[c].chunks[2][1] + fr[c].chunks[2][2] = fr[c].chunks[1][1]
       /\ fr[c].waitfor > 0

(***************************************************************************)
(* The transactions the functions create themselves: those of the chunks   *)
(* and of the descriptor in dmu_free_long_object, and that of a late       *)
(* arrival in dmu_sync.                                                     *)
(***************************************************************************)
ZilOne == "z1"

NextTx ==
    \/ TxgQuiesce
    \/ TxgStartSync
    \/ TxgSyncDone
    \/ DmuFreeLongObject(FreeOne)
    \/ \E unmounting \in BOOLEAN, fault \in {"none", "chunk", "assign"} :
          FreeAssign(FreeOne, unmounting, fault)
    \/ FreeChunk(FreeOne)
    \/ FreeWaitOpenDone(FreeOne)
    \/ \E fault \in BOOLEAN : FreeObjectAssign(FreeOne, fault)
    \/ FreeObjectCommit(FreeOne)
    \/ \E b \in Blocks, t \in Txgs, fault \in Faults :
          DmuSync(ZilOne, b, t, FALSE, FALSE, fault)
    \/ \E io \in zios, err \in {OK, EIO} : DmuSyncLateArrivalDone(io, err)

\* the object is full, or has one level and one block
InitTx ==
    /\ InitFree
    /\ dnodes[FreeOne].nlevels = 1 \/ dnodes[FreeOne] = FullDnode

SpecTx == InitTx /\ [][NextTx]_vars

\* the callers of dmu_free_long_object that are between the assignment and
\* the commit of a transaction of txg t
FreeTxs(t) ==
    {c \in FreeCallers : fr[c].pc \in {"assigned", "objtx"} /\ fr[c].txg = t}

\* the transactions assigned to a group and not committed are those of the
\* callers between assignment and commit and of the late writes in flight
TxBalance ==
    \A t \in Txgs :
        tc_count[t] = Cardinality(FreeTxs(t)) + Cardinality(LateWrites(t))

\* a caller that leaves an assigned transaction commits it, a caller whose
\* transaction was not assigned leaves the counts alone, and a call of
\* dmu_sync that returns an error leaves no transaction behind
TxFinishStep ==
    /\ \A c \in FreeCallers :
          /\ (fr[c].pc \in {"assigned", "objtx"} /\ fr'[c] # fr[c])
             => /\ fr'[c].pc \notin {"assigned", "objtx"}
                /\ tc_count' = [tc_count EXCEPT ![fr[c].txg] = @ - 1]
          /\ (fr[c].pc \in {"top", "object"} /\ fr'[c].pc = "done")
             => tc_count' = tc_count /\ fr'[c].ret # OK
          /\ (fr[c].pc \in {"top", "object"}
                /\ fr'[c].pc \in {"assigned", "objtx"})
             => /\ fr'[c].txg = tx_open_txg
                /\ tc_count' = [tc_count EXCEPT ![tx_open_txg] = @ + 1]
    /\ (fr' = fr /\ call'.op = "dmu_sync" /\ call'.ret # OK)
       => tc_count' = tc_count /\ zios' = zios
    /\ (fr' = fr /\ call'.op = "dmu_sync" /\ call'.ret = OK)
       => /\ tc_count' = [tc_count EXCEPT ![tx_open_txg] = @ + 1]
          /\ \E io \in zios' \ zios : io.tx = tx_open_txg
    /\ (fr' = fr /\ call'.op = "done")
       => tc_count' = [tc_count EXCEPT ![DoneZio.tx] = @ - 1]

\* C37: every transaction dmu_free_long_range, dmu_free_long_object and the
\* late arrival of dmu_sync create is finished once: one that was assigned
\* is committed by the step that ends the iteration, the descriptor free
\* (also when dmu_object_free failed) or the late write, and is counted for
\* its group until then; one that was not assigned is aborted and never
\* counted
TxFinishedOnce == []TxBalance /\ [][TxFinishStep]_vars

\* the final transaction of dmu_free_long_object was committed although
\* dmu_object_free failed, a late write has completed, and no transaction
\* is left assigned
TxFinishedOnceWitness ==
    /\ fr[FreeOne].pc = "done"
    /\ fr[FreeOne].long_object
    /\ fr[FreeOne].ret = EIO
    /\ fr[FreeOne].otx = 1
    /\ call.op = "done"
    /\ "zio_free" \in DOMAIN call
    /\ \A t \in Txgs : tc_count[t] = 0


(***************************************************************************)
(* The holds of one call of dmu_buf_hold_array_by_dnode.                   *)
(***************************************************************************)
InitHoldArray == InitFuncs /\ InitFuncsIdle

NextHoldArray ==
    \/ \E offset \in 0 .. (HaSize - 1), length \in 0 .. HaSize,
          read \in BOOLEAN, shift \in BOOLEAN :
          /\ offset + length <= HaSize
          /\ HoldArrayCall(offset, length, read, shift)
    \/ \E failed \in BOOLEAN : HoldArrayHold(failed)
    \/ \E err \in {OK, EIO} : HoldArrayZioWait(err)
    \/ \E st \in {"DB_CACHED", "DB_UNCACHED"} : HoldArrayWait(st)
    \/ HoldArrayRele

SpecHoldArray == InitHoldArray /\ [][NextHoldArray]_vars

\* the blocks with a byte of [offset, offset + length), and the block of an
\* unaligned offset of an empty range
SpanBlocks(offset, length) ==
    {blk \in HoldBlocks :
        blk * BlkSz < offset + length /\ (blk + 1) * BlkSz > offset}

\* the holds match the array: one hold per entry, none elsewhere
HoldsAre(holds, dbp) ==
    \A blk \in HoldBlocks :
        holds[blk] = Cardinality({k \in DOMAIN dbp : dbp[k] = blk})

HoldArrayBalance ==
    /\ ha.pc = "ret" /\ ha.err = OK
       => /\ ha.set
          /\ ha.numbufs = Cardinality(
                 IF ha.shift THEN SpanBlocks(ha.offset, ha.length) ELSE {0})
          /\ Len(ha.dbpp) = ha.numbufs
          /\ \A k \in 1 .. ha.numbufs :
                ha.dbpp[k] = (IF ha.shift THEN ha.offset \div BlkSz ELSE 0)
                                 + k - 1
          /\ \A blk \in HoldBlocks :
                ha.holds[blk] =
                    IF blk \in (IF ha.shift
                                THEN SpanBlocks(ha.offset, ha.length)
                                ELSE {0})
                    THEN 1 ELSE 0
          /\ ha.lock = 0
    /\ ha.pc = "ret" /\ ha.err # OK
       => /\ \A blk \in HoldBlocks : ha.holds[blk] = 0
          /\ ha.lock = 0
          /\ ~ha.set
          /\ ha.dbpp = <<>>
          /\ ha.numbufs = 0
          /\ ha.why \in {"past_end", "dbuf_hold", "zio_wait", "uncached"}
    /\ ha.pc \in {"hold", "zio_wait", "wait"} => HoldsAre(ha.holds, ha.dbp)
    /\ ha.pc = "idle" => \A blk \in HoldBlocks : ha.holds[blk] = 0
    /\ ha.lock = 1 <=> ha.pc = "hold"

\* each error return has its cause: the access past the end of a
\* single-block object before any hold, a failed dbuf_hold under the lock,
\* the error of the root read, a buffer of a read found UNCACHED
HoldArrayStep ==
    ha.pc # "ret" /\ ha'.pc = "ret" /\ ha'.err # OK
    => /\ ha'.why = "past_end"
          <=> ha.pc = "idle" /\ ~ha'.shift
              /\ ha'.offset + ha'.length > BlkSz
       /\ ha'.why = "dbuf_hold" <=> ha.pc = "hold"
       /\ ha'.why = "zio_wait" <=> ha.pc = "zio_wait" /\ ha.read
       /\ ha'.why = "uncached" <=> ha.pc = "wait" /\ ha.read
       /\ ha'.err = EIO

\* C38: a call of dmu_buf_hold_array_by_dnode that returns 0 leaves the
\* caller with exactly one hold on each buffer of the range, the array
\* naming them in block order; a call that returns an error (access past
\* the end of a single-block object, failed buffer hold, failed root read,
\* buffer UNCACHED after the wait) has released every hold it took, does not
\* hold the structural lock and returns no array
HoldArrayBalanced == []HoldArrayBalance /\ [][HoldArrayStep]_vars

\* a read of two blocks held both, and failed on the second buffer found
\* UNCACHED after the wait
HoldArrayBalancedWitness ==
    /\ ha.pc = "ret"
    /\ ha.why = "uncached"
    /\ ha.nblks = 2
    /\ ha.i = 1
    /\ ha.holds = [blk \in HoldBlocks |-> 0]


(***************************************************************************)
(* Concurrent dmu_bonus_hold_by_dnode on one dnode.                        *)
(***************************************************************************)
InitBonus == InitFuncs /\ InitFuncsIdle

NextBonus ==
    \/ \E t \in BonusThreads : BonusEnter(t)
    \/ \E t \in BonusThreads, ok \in BOOLEAN : BonusUpgrade(t, ok)
    \/ \E t \in BonusThreads : BonusWriter(t)
    \/ \E t \in BonusThreads : BonusCreate(t)
    \/ \E t \in BonusThreads : BonusAdd(t)
    \/ \E t \in BonusThreads : BonusAddRef(t)
    \/ \E t \in BonusThreads : BonusExit(t)
    \/ \E t \in BonusThreads, error \in {OK, EIO} : BonusRead(t, error)
    \/ \E t \in BonusThreads : BonusEvict(t)
    \/ \E t \in BonusThreads : BonusRele(t)

SpecBonus == InitBonus /\ [][NextBonus]_vars

\* the threads that hold the bonus buffer
BonusHolders ==
    {t \in BonusThreads :
        bh.th[t].pc \in {"add_ref", "rw_exit", "dbuf_read", "evict",
                         "dbuf_rele", "held"}}

\* thread t holds dn_struct_rwlock
BonusLocked(t) == t \in bh.readers \/ bh.writer = t

\* a thread is between its zfs_refcount_add that returned 1 and its
\* dnode_add_ref, which it runs with the lock held
BonusAdding == \E t \in BonusThreads : bh.th[t].pc = "add_ref"

BonusConsistent ==
    /\ bh.creates - bh.destroys = (IF bh.dn_bonus THEN 1 ELSE 0)
    /\ bh.db_holds = Cardinality(BonusHolders)
    /\ bh.db_holds > 0 => bh.dn_bonus
    /\ bh.writer # "none" => bh.readers = {}
    /\ \A t \in BonusThreads :
          /\ bh.th[t].pc \in {"upgrade", "add"} => BonusLocked(t)
          /\ bh.th[t].pc \in {"add_ref", "rw_exit"} => BonusLocked(t)
          /\ bh.th[t].pc = "recheck" => bh.writer = t
          /\ bh.th[t].pc = "idle" /\ bh.th[t].ret # OK => ~bh.th[t].dbp
    /\ ~BonusAdding
       => /\ bh.dn_holds = (IF bh.db_holds > 0 THEN 1 ELSE 0)
          /\ bh.dn_dbufs_count = bh.dn_holds
    /\ bh.readers = {} /\ bh.writer = "none" /\ bh.db_holds > 0
       => bh.dn_holds = 1

BonusStep ==
    /\ bh'.creates # bh.creates
       => /\ bh'.creates = bh.creates + 1
          /\ ~bh.dn_bonus
          /\ bh.writer # "none"
          /\ bh.th[bh.writer].pc = "recheck"
          /\ bh'.th[bh.writer].created
    /\ bh'.dn_holds > bh.dn_holds
       => /\ bh'.dn_holds = bh.dn_holds + 1
          /\ bh'.dn_dbufs_count = bh.dn_dbufs_count + 1
          /\ \E t \in BonusThreads :
                bh.th[t].pc = "add_ref" /\ BonusLocked(t)
    /\ bh'.db_holds > bh.db_holds
       => \E t \in BonusThreads :
             /\ bh.th[t].pc = "add"
             /\ bh'.th[t].pc = IF bh.db_holds = 0 THEN "add_ref"
                               ELSE "rw_exit"

\* C39: in every interleaving of dmu_bonus_hold_by_dnode on one dnode a
\* bonus buffer is created only under the exclusive structural lock and
\* only while the dnode has none, also after a failed upgrade, so there is
\* never more than one; the dnode gains a hold and its buffer count one
\* exactly for the hold that takes the bonus buffer from 0 to 1 holds, before
\* the lock is dropped, so a held bonus buffer means a held dnode
BonusCreatedOnce == []BonusConsistent /\ [][BonusStep]_vars

\* two callers found no bonus buffer, one created it, the other found it
\* under the exclusive lock, and both hold it
BonusCreatedOnceWitness ==
    \E t, u \in BonusThreads :
        /\ t # u
        /\ bh.th[t].pc = "held" /\ bh.th[t].created
        /\ bh.th[u].pc = "held" /\ bh.th[u].sawnull /\ ~bh.th[u].created
        /\ ~bh.th[u].upgraded
        /\ bh.creates = 1
        /\ bh.db_holds = 2
        /\ bh.dn_holds = 1


(***************************************************************************)
(* Facade calls on objects that are allocated or not.                      *)
(***************************************************************************)
FacadeDnodes ==
    {d \in [alloc : BOOLEAN, spill : BOOLEAN, data : BOOLEAN, holds : 0 .. 1] :
        ~d.alloc => ~d.spill /\ ~d.data /\ d.holds = 0}

InitFacade ==
    /\ InitFuncs
    /\ wi = IdleWrite
    /\ InitHoldIdle
    /\ InitPrefetchIdle
    /\ InitCloneIdle
    /\ on = IdleOffsetNext
    /\ ha = IdleHoldArray
    /\ bh = IdleBonus
    /\ sp \in {[IdleFacade EXCEPT !.objs = objs] :
                  objs \in [FacadeObjects -> FacadeDnodes]}

NextFacade ==
    \/ \E object \in FacadeObjects,
          garbage \in FacadeObjects \cup {WildDnode} :
          DmuRmSpill(object, garbage)
    \/ \E op \in CheckedFacadeOps, object \in FacadeObjects :
          DmuCheckedOp(op, object)

SpecFacade == InitFacade /\ [][NextFacade]_vars

\* a call whose dnode_hold failed returned that error and left every object
\* as it was: nothing removed, no lock taken, no hold released, no crash
HoldFailedClean ==
    /\ sp'.call.ret = sp'.call.holderr
    /\ sp'.objs = sp.objs
    /\ sp'.call.locked = {}
    /\ sp'.call.released = {}
    /\ sp'.call.removed = {}
    /\ ~sp'.call.crashed

\* C40: a facade call whose initial dnode hold fails returns that error
\* without touching any object: dmu_rm_spill with a failing dnode_hold
\* removes no spill block, takes no lock and releases no hold, like dmu_read,
\* dmu_free_range, dmu_free_long_range and dmu_offset_next
HoldFailureTouchesNothing ==
    [][sp' # sp /\ sp'.call.holderr # OK => HoldFailedClean]_vars

\* C40, the part the code keeps: the four functions that test the error of
\* dnode_hold return it without touching any object, every call returns the
\* error of a failed dnode_hold, and a dmu_rm_spill whose hold succeeds removes
\* the spill block of its object only and leaves its holds as they were
CheckedHoldFailure ==
    [][sp' # sp
       => /\ sp'.call.holderr # OK /\ sp'.call.op \in CheckedFacadeOps
             => HoldFailedClean
          /\ sp'.call.holderr # OK => sp'.call.ret = sp'.call.holderr
          /\ sp'.call.holderr = OK /\ sp'.call.op = "dmu_rm_spill"
             => /\ sp'.objs = [sp.objs EXCEPT ![sp'.call.object].spill = FALSE]
                /\ sp'.call.locked = {sp'.call.object}
                /\ ~sp'.call.crashed]_vars

\* dmu_rm_spill of an object that is not allocated returned ENOENT after it
\* removed the spill block of the other object, under that object's lock,
\* and released a hold of it
HoldFailureWitness ==
    \E o \in FacadeObjects :
        /\ sp.call.op = "dmu_rm_spill"
        /\ sp.call.object = o
        /\ ~sp.objs[o].alloc
        /\ sp.call.ret = ENOENT
        /\ sp.call.removed # {}
        /\ sp.call.removed = sp.call.locked
        /\ sp.call.released = sp.call.locked
        /\ o \notin sp.call.locked
        /\ ~sp.call.crashed

=============================================================================
